---- MODULE Spec2Model ----
(***************************************************************************)
(* StarkChrome v2 background service worker: the time-on-page tracker      *)
(* (tracker.js), the event store (store.js), the daily digest builder      *)
(* (digest.js) and the service worker that wires them to the browser's     *)
(* alarms, messages and tab / idle signals (service-worker.js, events/).   *)
(*                                                                         *)
(* Conventions                                                             *)
(*  - The clock counts whole seconds; every duration constant of the code  *)
(*    is a whole number of seconds and is written as the code writes it,   *)
(*    in milliseconds, under Ms(_).                                        *)
(*  - A JavaScript value that may be null/undefined is a sequence of       *)
(*    length 0 (Null) or 1 (Some(v)).                                      *)
(*  - chrome.storage.local serves its requests in the order they are       *)
(*    issued: a get returns the value held when it was issued, a set is    *)
(*    durable when it was issued; the continuation after the await runs    *)
(*    in a later step.                                                     *)
(*  - webhookStats / loggerStats counters and the toolbar badge are not    *)
(*    part of the state.                                                   *)
(***************************************************************************)
EXTENDS Integers, Sequences, FiniteSets, TLC

Null == <<>>
Some(v) == <<v>>
IsNull(o) == o = <<>>
Val(o) == o[1]
Min2(a, b) == IF a <= b THEN a ELSE b

\* one clock unit is 1000 ms
Ms(x) == x \div 1000

MIN_DURATION_MS == Ms(3000)
MAX_DURATION_MS == Ms(30 * 60 * 1000)
CONTENT_MIN_MS == Ms(60 * 1000)
CONTENT_MAX_MS == Ms(30 * 60 * 1000)
DAY_MS == Ms(24 * 60 * 60 * 1000)

\* the day key of toISOString().split('T')[0]
UtcDay(t) == t \div DAY_MS

-----------------------------------------------------------------------------
(* URLs.  A URL is [scheme, host, path, keys, frag]: keys is the set of      *)
(* query-parameter names it carries, frag whether it carries a #fragment.    *)

MkUrl(s, h, p, k, f) == [scheme |-> s, host |-> h, path |-> p, keys |-> k, frag |-> f]
EmptyUrl == MkUrl("", "", "", {}, FALSE)
UrlExample == MkUrl("https", "example.com", "/a", {}, FALSE)
UrlGithub == MkUrl("https", "github.com", "/r", {}, FALSE)
UrlFile == MkUrl("file", "", "/doc.pdf", {}, FALSE)
UrlBank == MkUrl("https", "mybank.com", "/acct", {}, FALSE)
UrlNewTab == MkUrl("chrome", "newtab", "/", {}, FALSE)
UrlSearch == MkUrl("https", "example.com", "/s", {"q", "token"}, TRUE)

AllUrls == {UrlExample, UrlGithub, UrlFile, UrlBank, UrlNewTab, UrlSearch}
Hosts == {u.host : u \in AllUrls}

INTERNAL_PATTERNS == {"chrome", "chrome-extension", "about", "edge", "brave"}
DefaultBlocklist ==
  {"bank", "chase.com", "wellsfargo.com", "bankofamerica.com", "paypal.com",
   "venmo.com", "health", "patient", "medical", "pharmacy"}
DEFAULT_SETTINGS ==
  [enabled |-> TRUE, trackIncognito |-> FALSE, domainBlocklist |-> DefaultBlocklist]

\* hostname.includes(term), tabulated for the hosts of the model
HostIncludes(host, term) == host = "mybank.com" /\ term = "bank"

getDomain(url) == url.host

keepParams == {"q", "query", "search", "search_query", "tbm", "type"}

sanitizeUrl(url) ==
  IF url = EmptyUrl THEN EmptyUrl
  ELSE [url EXCEPT !.scheme = IF @ = "file" THEN "null" ELSE @,
                   !.host = IF url.scheme = "file" THEN "" ELSE @,
                   !.keys = @ \cap keepParams,
                   !.frag = FALSE]

VARIABLES
  now,            \* Date.now(), in seconds
  inputs,         \* number of inputs the browser and the user have given so far
  cachedSettings, \* privacy.js cachedSettings
  currentPage,    \* tracker.js currentPage
  pageTimeLog,    \* tracker.js pageTimeLog
  sentUrls,       \* tracker.js sentUrls
  extractTasks,   \* extractAndLog runs awaiting the content script's reply
  cachedConfig,   \* api.js cachedConfig
  cachedLogger,   \* logger.js cachedLogger
  eventLog,       \* store.js eventLog
  storeMeta,      \* store.js storeMeta
  lastIdleStart,  \* events/idle.js lastIdleStart
  currentState,   \* events/idle.js currentState
  storage,        \* chrome.storage.local
  alarms,         \* chrome.alarms: when each named alarm is due
  phase,          \* "loading" while initialize() awaits its loads, then "ready"
  initSnap,       \* what the storage reads issued by initialize() return
  listening,      \* whether the tab / idle listeners are registered
  persistPc,      \* position of the persistence tick's handler
  builds,         \* the buildAndSendDigest invocations, by slot
  tz,             \* local time minus UTC, in seconds
  deviceState,    \* the idle state chrome.idle reports: active, idle or locked
  closedSum,      \* history: clamped durations closed since the last reset
  snapshotAt,     \* history: when persistPageTimes last ran
  deliveredDays,  \* history: day keys with a delivered digest
  redeliveredDays,\* history: day keys with more than one delivered digest
  lastFinished,   \* history: day and outcome of the latest finished build
  storeCall,      \* the latest call of a store.js export made by the store's caller
  feed,           \* history: the addPageContent calls made one after the other
  clearedAt,      \* history: when the options page last cleared the data
  lastSignal,     \* history: the latest tab or idle signal the browser gave
  outbound        \* history: the requests made outside the digest builder

trackerVars == <<currentPage, pageTimeLog, sentUrls, extractTasks, closedSum>>
storeVars == <<eventLog, storeMeta>>
configVars == <<cachedSettings, cachedConfig, cachedLogger>>
idleVars == <<lastIdleStart, currentState>>
lifeVars == <<phase, initSnap, listening>>
digestVars == <<builds, deliveredDays, redeliveredDays, lastFinished>>
seenVars == <<clearedAt, lastSignal, outbound>>
callVars == <<storeCall, feed, seenVars>>

vars ==
  <<now, inputs, tz, deviceState, trackerVars, storeVars, configVars, idleVars, lifeVars, digestVars,
    callVars, storage, alarms, persistPc, snapshotAt>>

MaxInputs == 5

\* one more input from the browser or the user
Spend == inputs < MaxInputs /\ inputs' = inputs + 1

getPrivacySettings == IF IsNull(cachedSettings) THEN DEFAULT_SETTINGS ELSE Val(cachedSettings)

\* the loop over settings.domainBlocklist runs inside a try block: when the
\* settings have no such field it throws and the catch lets the URL through
shouldTrack(url) ==
  /\ getPrivacySettings.enabled
  /\ url # EmptyUrl
  /\ url.scheme \notin INTERNAL_PATTERNS
  /\ "domainBlocklist" \in DOMAIN getPrivacySettings =>
       ~\E term \in getPrivacySettings.domainBlocklist : HostIncludes(url.host, term)

-----------------------------------------------------------------------------
(* api.js, logger.js *)

DEFAULT_DIGEST_TIME == 20 * 60 * 60
DEFAULT_CONFIG ==
  [webhookUrl |-> "", token |-> "", enabled |-> FALSE, digestTime |-> DEFAULT_DIGEST_TIME,
   sendBookmarks |-> TRUE, sendDownloads |-> TRUE, sendComeback |-> TRUE]
DEFAULT_LOGGER == [loggerUrl |-> "", loggerToken |-> "", loggerEnabled |-> FALSE]

getConfig == IF IsNull(cachedConfig) THEN DEFAULT_CONFIG ELSE Val(cachedConfig)
getLoggerConfig == IF IsNull(cachedLogger) THEN DEFAULT_LOGGER ELSE Val(cachedLogger)

ConfigOk(c) == c.webhookUrl # "" /\ c.token # "" /\ c.enabled
isConfigured == ConfigOk(getConfig)
isLoggerConfigured ==
  getLoggerConfig.loggerUrl # "" /\ getLoggerConfig.loggerToken # "" /\ getLoggerConfig.loggerEnabled

\* faulty variant: the enabled switch is not looked at
NotConfiguredUnlessEmpty(c) == c.webhookUrl = "" \/ c.token = ""

\* postToAgent's own guard, before its fetch
NotConfigured(c) == ~c.enabled \/ c.webhookUrl = "" \/ c.token = ""

\* postToAgent up to its fetch, as one record of the call: whom it is for, what
\* it is about, after how many inputs it was made, and whether a request is
\* made or 'not_configured' returned
postToAgent(kind, url) ==
  {[to |-> "webhook", kind |-> kind, url |-> url, after |-> inputs,
    result |-> IF NotConfigured(getConfig) THEN "not_configured" ELSE "fetch"]}

postToLogger(kind, url) ==
  {[to |-> "logger", kind |-> kind, url |-> url, after |-> inputs,
    result |-> IF \/ ~getLoggerConfig.loggerEnabled
                  \/ getLoggerConfig.loggerUrl = ""
                  \/ getLoggerConfig.loggerToken = ""
               THEN "not_configured" ELSE "fetch"]}

sendBookmarkEvent(title, url) ==
  IF ~getConfig.sendBookmarks THEN {} ELSE postToAgent("bookmark", url)

sendDownloadEvent(filename, url) ==
  IF ~getConfig.sendDownloads THEN {} ELSE postToAgent("download", url)

sendComebackEvent(awayMinutes) ==
  IF ~getConfig.sendComeback THEN {} ELSE postToAgent("comeback", EmptyUrl)

-----------------------------------------------------------------------------
(* tracker.js *)

HasEntry(log, domain) == \E i \in 1..Len(log) : log[i].domain = domain
EntryIndex(log, domain) == CHOOSE i \in 1..Len(log) : log[i].domain = domain
TotalOf(log, domain) == IF HasEntry(log, domain) THEN log[EntryIndex(log, domain)].totalMs ELSE 0
SessionsOf(log, domain) == IF HasEntry(log, domain) THEN log[EntryIndex(log, domain)].sessions ELSE 0

\* faulty variant: the entry is overwritten instead of added to
accumulateTimeOverwrite(log, domain, durationMs) ==
  IF domain = "" THEN log
  ELSE IF HasEntry(log, domain)
       THEN [log EXCEPT ![EntryIndex(log, domain)] =
                          [@ EXCEPT !.totalMs = durationMs, !.sessions = @ + 1]]
       ELSE Append(log, [domain |-> domain, totalMs |-> durationMs, sessions |-> 1])

accumulateTime(log, domain, durationMs) ==
  IF domain = "" THEN log
  ELSE IF HasEntry(log, domain)
       THEN [log EXCEPT ![EntryIndex(log, domain)] =
                          [@ EXCEPT !.totalMs = @ + durationMs, !.sessions = @ + 1]]
       ELSE Append(log, [domain |-> domain, totalMs |-> durationMs, sessions |-> 1])

\* faulty variant: no cap
SessionDurationUncapped(page, t) == t - page.startTime

SessionDuration(page, t) == Min2(t - page.startTime, MAX_DURATION_MS)

Accumulates(duration) == duration >= MIN_DURATION_MS

\* faulty variant: the lower bound is exclusive
ContentWorthyStrict(duration) == duration > CONTENT_MIN_MS /\ duration <= CONTENT_MAX_MS

ContentWorthy(duration) == duration >= CONTENT_MIN_MS /\ duration <= CONTENT_MAX_MS

\* extractAndLog up to its first await: the runs that get as far as asking the
\* tab's content script for its text
ExtractStarts(tabId, url, title, timeSpent) ==
  IF /\ url # EmptyUrl
     /\ url.scheme \notin {"chrome", "chrome-extension"}
     /\ shouldTrack(url)
     /\ sanitizeUrl(url) \notin sentUrls
  THEN {[tabId |-> tabId, url |-> sanitizeUrl(url), href |-> url, title |-> title,
         timeSpent |-> timeSpent, askedAt |-> now, pc |-> "asked", existing |-> <<>>]}
  ELSE {}

\* the close-out of the current page shared by trackPageChange and trackIdle
CloseOut(kind) ==
  IF IsNull(currentPage)
  THEN /\ pageTimeLog' = pageTimeLog
       /\ extractTasks' = extractTasks
       /\ closedSum' = closedSum
  ELSE LET page == Val(currentPage)
           duration == SessionDuration(page, now)
           newLog == IF Accumulates(duration)
                     THEN accumulateTime(pageTimeLog, page.domain, duration)
                     ELSE pageTimeLog
           starts == IF ContentWorthy(duration)
                     THEN ExtractStarts(page.tabId, page.url, page.title, duration)
                     ELSE {}
       IN /\ pageTimeLog' = newLog
          /\ extractTasks' = extractTasks \cup starts
          /\ closedSum' =
               IF Accumulates(duration)
               THEN [closedSum EXCEPT ![page.domain] =
                       [totalMs |-> @.totalMs + duration, sessions |-> @.sessions + 1]]
               ELSE closedSum

trackPageChange(url, title, tabId) ==
  /\ CloseOut("page")
  /\ currentPage' =
       IF url # EmptyUrl /\ shouldTrack(url)
       THEN Some([url |-> url, domain |-> getDomain(url), title |-> title,
                  startTime |-> now, tabId |-> tabId])
       ELSE Null
  /\ UNCHANGED sentUrls

trackIdle ==
  /\ CloseOut("idle")
  /\ currentPage' = Null
  /\ UNCHANGED sentUrls

resetPageTimes ==
  /\ pageTimeLog' = <<>>

persistPageTimes ==
  storage' = [storage EXCEPT !._pageTimes = Some(pageTimeLog), !._currentPage = currentPage]

-----------------------------------------------------------------------------
(* categories.js, store.js *)

categorize(domain) ==
  IF domain = "" THEN "other"
  ELSE IF domain = "github.com" THEN "dev"
  ELSE "other"

DEFAULT_RETENTION_DAYS == 90
QuotaTail == 1000
EmptyMeta == [totalEvents |-> 0, oldestEvent |-> Null, newestEvent |-> Null]

\* the store's memory and its durable copy, as one value the operations map
StoreState ==
  [log |-> eventLog, meta |-> storeMeta, dLog |-> storage.eventLog, dMeta |-> storage.storeMeta]

\* faulty variant: the oldest entries are kept
FirstN(seq, n) == IF Len(seq) <= n THEN seq ELSE SubSeq(seq, 1, n)

LastN(seq, n) == IF Len(seq) <= n THEN seq ELSE SubSeq(seq, Len(seq) - n + 1, Len(seq))

compactData(event) ==
  CASE event.type = "navigation" -> [transition |-> Null]
    [] event.type = "bookmark.created" -> [url |-> sanitizeUrl(event.url), title |-> event.title]
    [] event.type = "download.completed" ->
         [filename |-> event.info.filename, url |-> sanitizeUrl(event.url)]
    [] event.type = "user.comeback" -> [awayMinutes |-> event.info.awayMinutes]
    [] event.type = "idle" -> [state |-> event.info.state]
    [] OTHER -> <<>>

\* faulty variant: an event exactly at the cutoff is kept
RetainedAtCutoff(e, cutoff) == e.t >= cutoff

Retained(e, cutoff) == e.t > cutoff

enforceRetention(s, t) ==
  LET cutoff == t - DEFAULT_RETENTION_DAYS * DAY_MS
      kept == SelectSeq(s.log, LAMBDA e : Retained(e, cutoff))
  IN IF Len(kept) < Len(s.log)
     THEN [s EXCEPT !.log = kept,
                    !.meta.oldestEvent = IF Len(kept) > 0 THEN Some(kept[1].t) ELSE Null]
     ELSE s

\* out: how chrome.storage.local.set ends: "ok"; "quota" (quota error, the retry
\* succeeds); "quota2" (the retry fails too); "error" (any other error)
persistStore(s, t, out) ==
  LET r == enforceRetention(s, t)
      cut == [r EXCEPT !.log = LastN(@, QuotaTail)]
  IN CASE out = "ok" -> [r EXCEPT !.dLog = Some(r.log), !.dMeta = Some(r.meta)]
       [] out = "quota" -> [cut EXCEPT !.dLog = Some(cut.log), !.dMeta = Some(cut.meta)]
       [] out = "quota2" -> cut
       [] OTHER -> r

\* persistStore rejects: the retry inside its catch block is not guarded
PersistRaises(out) == out = "quota2"

\* faulty variant: a flush writes only a log whose length is a multiple of five
flushStoreWhenFull(s, t, out) == IF Len(s.log) % 5 = 0 THEN persistStore(s, t, out) ELSE s

flushStore(s, t, out) == persistStore(s, t, out)

\* faulty variant: the log is persisted on every sixth append
recordEventEverySixth(s, event, t, out) ==
  LET entry == [t |-> t, type |-> event.type, url |-> sanitizeUrl(event.url),
                domain |-> getDomain(event.url), cat |-> categorize(getDomain(event.url)),
                title |-> event.title, data |-> compactData(event)]
      s1 == [s EXCEPT !.log = Append(@, entry),
                      !.meta = [totalEvents |-> @.totalEvents + 1,
                                newestEvent |-> Some(t),
                                oldestEvent |-> IF IsNull(@.oldestEvent) THEN Some(t)
                                                ELSE @.oldestEvent]]
  IN IF Len(s1.log) % 6 = 0 THEN persistStore(s1, t, out) ELSE s1

recordEvent(s, event, t, out) ==
  LET entry == [t |-> t, type |-> event.type, url |-> sanitizeUrl(event.url),
                domain |-> getDomain(event.url), cat |-> categorize(getDomain(event.url)),
                title |-> event.title, data |-> compactData(event)]
      s1 == [s EXCEPT !.log = Append(@, entry),
                      !.meta = [totalEvents |-> @.totalEvents + 1,
                                newestEvent |-> Some(t),
                                oldestEvent |-> IF IsNull(@.oldestEvent) THEN Some(t)
                                                ELSE @.oldestEvent]]
  IN IF Len(s1.log) % 5 = 0 THEN persistStore(s1, t, out) ELSE s1

\* faulty variant: the day starts at midnight UTC
UtcDayStart(t) == (t \div DAY_MS) * DAY_MS

LocalDayStart(t) == ((t + tz) \div DAY_MS) * DAY_MS - tz

getEventsForDay(log, date) ==
  LET dayStart == LocalDayStart(date)
      dayEnd == dayStart + DAY_MS
  IN SelectSeq(log, LAMBDA e : e.t >= dayStart /\ e.t < dayEnd)

\* faulty variant: events without a domain are counted too
CountedAnyDomain(e) == e.type \notin {"idle", "user.comeback"}

\* the events getDomainStats does not skip
Counted(e) == e.domain # "" /\ e.type \notin {"idle", "user.comeback"}

\* one turn of getDomainStats's loop; stats is a function of the domains seen
StatsAdd(stats, e) ==
  IF ~Counted(e) THEN stats
  ELSE LET old == IF e.domain \in DOMAIN stats THEN stats[e.domain]
                  ELSE [visits |-> 0, cat |-> e.cat, title |-> e.title,
                        firstSeen |-> e.t, lastSeen |-> e.t]
           new == [old EXCEPT !.visits = @ + 1,
                              !.lastSeen = IF e.t > @ THEN e.t ELSE @,
                              !.title = IF e.title # "" THEN e.title ELSE @]
       IN [d \in DOMAIN stats \cup {e.domain} |-> IF d = e.domain THEN new ELSE stats[d]]

RECURSIVE getDomainStats(_)
getDomainStats(events) ==
  IF events = <<>> THEN <<>>
  ELSE StatsAdd(getDomainStats(SubSeq(events, 1, Len(events) - 1)), events[Len(events)])

\* the effect of a store operation on the variables
StoreBecomes(s) ==
  /\ eventLog' = s.log
  /\ storeMeta' = s.meta

PAGE_CONTENT_CAP == 50

RECURSIVE SortByTimeSpent(_)
\* faulty variant: no ordering, the newest entry comes first
InsertAtFront(sorted, e) == <<e>> \o sorted

InsertByTimeSpent(sorted, e) ==
  LET k == Cardinality({i \in 1..Len(sorted) : sorted[i].timeSpent >= e.timeSpent})
  IN SubSeq(sorted, 1, k) \o <<e>> \o SubSeq(sorted, k + 1, Len(sorted))
SortByTimeSpent(seq) ==
  IF seq = <<>> THEN <<>>
  ELSE InsertByTimeSpent(SortByTimeSpent(SubSeq(seq, 1, Len(seq) - 1)), seq[Len(seq)])

\* faulty variant: an entry that is not smaller replaces the stored one
ReplacesOrTies(entry, old) == entry.timeSpent >= old.timeSpent

Replaces(entry, old) == entry.timeSpent > old.timeSpent

\* addPageContent after its read: existing is what chrome.storage returned for the day's key
addPageContent(existing, entry) ==
  LET hits == {i \in 1..Len(existing) : existing[i].url = entry.url}
      merged == IF hits # {}
                THEN LET idx == CHOOSE i \in hits : \A j \in hits : i <= j
                     IN IF Replaces(entry, existing[idx])
                        THEN [existing EXCEPT ![idx] = entry] ELSE existing
                ELSE Append(existing, entry)
      sorted == SortByTimeSpent(merged)
  IN SubSeq(sorted, 1, Min2(Len(sorted), PAGE_CONTENT_CAP))

ContentOfDay(day) == SelectSeq(storage.content, LAMBDA e : e.day = day)

ContentReplies == {"text", "short", "error"}

\* faulty variant: the URL is marked as sent whatever the content script answers
ExtractReplyMarksAlways(task, reply) ==
  /\ task \in extractTasks
  /\ task.pc = "asked"
  /\ sentUrls' = sentUrls \cup {task.url}
  /\ extractTasks' =
       IF reply = "text"
       THEN (extractTasks \ {task}) \cup
              {[task EXCEPT !.pc = "reading", !.existing = ContentOfDay(UtcDay(now))]}
       ELSE extractTasks \ {task}
  /\ UNCHANGED <<now, inputs, tz, deviceState, currentPage, pageTimeLog, closedSum,
                 storeVars, configVars, idleVars, lifeVars, callVars, digestVars, storage, alarms,
                 persistPc, snapshotAt>>

\* extractAndLog: the content script answers (or sendMessage rejects)
ExtractReply(task, reply) ==
  /\ task \in extractTasks
  /\ task.pc = "asked"
  /\ IF reply = "text"
     THEN /\ sentUrls' = sentUrls \cup {task.url}
          /\ extractTasks' = (extractTasks \ {task}) \cup
               {[task EXCEPT !.pc = "reading", !.existing = ContentOfDay(UtcDay(now))]}
     ELSE /\ extractTasks' = extractTasks \ {task}
          /\ UNCHANGED sentUrls
  /\ UNCHANGED <<now, inputs, tz, deviceState, currentPage, pageTimeLog, closedSum,
                 storeVars, configVars, idleVars, lifeVars, callVars, digestVars, storage, alarms,
                 persistPc, snapshotAt>>

\* addPageContent: the day's entries were read, the merged list is written back
\* with the meta the content script reported (its url is the page's location.href,
\* taken as the address the session was opened with); then the post to the logger
ExtractStore(task) ==
  /\ task \in extractTasks
  /\ task.pc = "reading"
  /\ LET entry == [day |-> UtcDay(now), url |-> task.url, title |-> task.title,
                   timeSpent |-> task.timeSpent, meta |-> [url |-> task.href],
                   timestamp |-> now]
     IN storage' = [storage EXCEPT !.content =
          SelectSeq(@, LAMBDA e : e.day # entry.day) \o addPageContent(task.existing, entry)]
  /\ extractTasks' = extractTasks \ {task}
  /\ outbound' = IF isLoggerConfigured
                 THEN outbound \cup postToLogger("page.content", task.url) ELSE outbound
  /\ UNCHANGED <<now, inputs, tz, deviceState, currentPage, pageTimeLog, sentUrls, closedSum,
                 storeVars, configVars, idleVars, lifeVars, storeCall, feed, clearedAt,
                 lastSignal, digestVars, alarms, persistPc, snapshotAt>>

-----------------------------------------------------------------------------
(* digest.js *)

MaxBuilds == 2
Slots == 1..MaxBuilds

\* faulty variant: the configured time itself counts as still to come
NextDigestTimeOrNow(t, config) ==
  LET next == LocalDayStart(t) + config.digestTime
  IN IF next < t THEN next + DAY_MS ELSE next

\* scheduleDigest: the next occurrence of the configured local time after t
NextDigestTime(t, config) ==
  LET next == LocalDayStart(t) + config.digestTime
  IN IF next <= t THEN next + DAY_MS ELSE next

scheduleDigest(al, config) == [al EXCEPT !.digest = Some(NextDigestTime(now, config))]

\* a line of the report: the section it belongs to, whether it is the section's
\* header, an item or a blank line, and what the line shows
Line(section, kind, text, n) ==
  [section |-> section, kind |-> kind, text |-> text, n |-> n, ms |-> 0]
Blank == Line("", "blank", "", 0)

TOP_SITES == 15
TOP_PAGES == 20

\* Object.entries(domainStats): the domains in the order getDomainStats first saw them
RECURSIVE StatsKeys(_)
StatsKeys(events) ==
  IF events = <<>> THEN <<>>
  ELSE LET keys == StatsKeys(SubSeq(events, 1, Len(events) - 1))
           e == events[Len(events)]
       IN IF Counted(e) /\ e.domain \notin {keys[i] : i \in 1..Len(keys)}
          THEN Append(keys, e.domain) ELSE keys

\* faulty variant: the domain with the fewest visits comes first
InsertByVisitsAscending(sorted, d, stats) ==
  LET k == Cardinality({i \in 1..Len(sorted) : stats[sorted[i]].visits <= stats[d].visits})
  IN SubSeq(sorted, 1, k) \o <<d>> \o SubSeq(sorted, k + 1, Len(sorted))

\* sort((a, b) => b[1].visits - a[1].visits), a stable sort
InsertByVisits(sorted, d, stats) ==
  LET k == Cardinality({i \in 1..Len(sorted) : stats[sorted[i]].visits >= stats[d].visits})
  IN SubSeq(sorted, 1, k) \o <<d>> \o SubSeq(sorted, k + 1, Len(sorted))

RECURSIVE SortByVisits(_, _)
SortByVisits(keys, stats) ==
  IF keys = <<>> THEN <<>>
  ELSE InsertByVisits(SortByVisits(SubSeq(keys, 1, Len(keys) - 1), stats), keys[Len(keys)], stats)

\* Object.entries(byCategory): the categories in the order their first domain comes
RECURSIVE CategoryKeys(_, _)
CategoryKeys(keys, stats) ==
  IF keys = <<>> THEN <<>>
  ELSE LET cats == CategoryKeys(SubSeq(keys, 1, Len(keys) - 1), stats)
           cat == stats[keys[Len(keys)]].cat
       IN IF cat \in {cats[i] : i \in 1..Len(cats)} THEN cats ELSE Append(cats, cat)

\* getTotalActiveTime
RECURSIVE getTotalActiveTime(_)
getTotalActiveTime(log) ==
  IF log = <<>> THEN 0 ELSE log[1].totalMs + getTotalActiveTime(Tail(log))

\* new Date(e.t).getHours()
HourOf(t) == ((t + tz) % DAY_MS) \div Ms(60 * 60 * 1000)

\* formatDigest: the lines of the report, in the order they are pushed
formatDigest(events, domainStats, pageTimes, totalActiveMs, pageContents) ==
  LET count(type) == Len(SelectSeq(events, LAMBDA e : e.type = type))
      active == IF totalActiveMs > 0 THEN Line("Browsing Summary", "header", "", totalActiveMs)
                ELSE IF Len(events) < 2 THEN Line("Browsing Summary", "header", "minimal", 0)
                ELSE Line("Browsing Summary", "header", "", events[Len(events)].t - events[1].t)
      sorted == SortByVisits(StatsKeys(events), domainStats)
      sortedDomains == SubSeq(sorted, 1, Min2(Len(sorted), TOP_SITES))
      sites == IF sortedDomains = <<>> THEN <<>>
               ELSE <<Line("Top Sites", "header", "", 0)>>
                    \o [i \in 1..Len(sortedDomains) |->
                          [Line("Top Sites", "item", sortedDomains[i],
                                domainStats[sortedDomains[i]].visits)
                             EXCEPT !.ms = TotalOf(pageTimes, sortedDomains[i])]]
                    \o <<Blank>>
      cats == {domainStats[d].cat : d \in DOMAIN domainStats}
      visitsOf(cat) == Len(SelectSeq(events, LAMBDA e : Counted(e) /\ e.cat = cat))
      catSeq == SortByVisits(SelectSeq(CategoryKeys(StatsKeys(events), domainStats),
                                       LAMBDA c : c \notin {"other", "email"}),
                             [c \in cats |-> [visits |-> visitsOf(c)]])
      categories == IF catSeq = <<>> THEN <<>>
                    ELSE <<Line("Activity by Category", "header", "", 0)>>
                         \o [i \in 1..Len(catSeq) |->
                               Line("Activity by Category", "item", catSeq[i], visitsOf(catSeq[i]))]
                         \o <<Blank>>
      bookmarks == SelectSeq(events, LAMBDA e : e.type = "bookmark.created")
      bookmarked == IF bookmarks = <<>> THEN <<>>
                    ELSE <<Line("Bookmarked", "header", "", 0)>>
                         \o [i \in 1..Len(bookmarks) |->
                               Line("Bookmarked", "item",
                                    IF bookmarks[i].data.title # "" THEN bookmarks[i].data.title
                                    ELSE bookmarks[i].title, 0)]
                         \o <<Blank>>
      downloads == SelectSeq(events, LAMBDA e : e.type = "download.completed")
      downloaded == IF downloads = <<>> THEN <<>>
                    ELSE <<Line("Downloads", "header", "", 0)>>
                         \o [i \in 1..Len(downloads) |->
                               Line("Downloads", "item",
                                    IF downloads[i].data.filename # "" THEN downloads[i].data.filename
                                    ELSE "unknown", 0)]
                         \o <<Blank>>
      topPages == SubSeq(SortByTimeSpent(pageContents), 1, Min2(Len(pageContents), TOP_PAGES))
      pages == IF pageContents = <<>> THEN <<>>
               ELSE <<Line("Page Content", "header", "", 0)>>
                    \o [i \in 1..Len(topPages) |->
                          Line("Page Content", "item",
                               IF topPages[i].title # "" THEN topPages[i].title ELSE "(untitled)",
                               (topPages[i].timeSpent + 30) \div 60)]
                    \o <<Blank>>
      inHour(h) == Len(SelectSeq(events, LAMBDA e : HourOf(e.t) = h))
      activeHours == {h \in 0..23 : inHour(h) > 2}
      peak == CHOOSE h \in activeHours :
                \A g \in activeHours : inHour(g) < inHour(h) \/ (inHour(g) = inHour(h) /\ h <= g)
      pattern == IF activeHours = {} THEN <<>>
                 ELSE <<Line("Activity Pattern", "header", "", 0),
                        Line("Activity Pattern", "item", "Most active hours", peak),
                        Line("Activity Pattern", "item", "Total page loads",
                             count("navigation") + count("tab.activated"))>>
                      \o (IF count("user.comeback") > 0
                          THEN <<Line("Activity Pattern", "item", "Returned from breaks",
                                      count("user.comeback"))>>
                          ELSE <<>>)
  IN <<Line("StarkChrome Daily Digest", "header", "", 0), Blank, active, Blank>>
     \o sites \o categories \o bookmarked \o downloaded \o pages \o pattern

\* faulty variant: a read issued later may be answered before initialize()'s reads
LoadsAnsweredOrNot == TRUE

\* chrome.storage answers in the order asked: a read or write a handler issues
\* after the worker's start is answered after the four reads of initialize(),
\* whose continuations have assigned what they loaded by then
LoadsAnswered == phase = "ready"

IdleBuild ==
  [pc |-> "idle", source |-> "", date |-> 0, lastDigest |-> Null, nEvents |-> 0,
   webhook |-> "", logger |-> "", sends |-> 0, counted |-> FALSE, wrote |-> FALSE,
   didReset |-> FALSE, afterSuccess |-> FALSE, result |-> "", pages |-> <<>>,
   atStart |-> Null]

\* slot i holds the i-th invocation of buildAndSendDigest
IsFree(b) == b.pc = "idle"
Running(b) == b.pc \notin {"idle", "done", "gone"}
FreeSlot == CHOOSE i \in Slots : IsFree(builds[i]) /\ \A j \in Slots : IsFree(builds[j]) => i <= j
HasFreeSlot == \E i \in Slots : IsFree(builds[i])

\* a build has ended: what it returned, and the history of finished builds
Finish(b, result) == [b EXCEPT !.pc = "done", !.result = result]

NoteFinished(b) ==
  lastFinished' = Some([day |-> UtcDay(b.date), success |-> b.wrote])

\* buildAndSendDigest() up to the await of the marker read.  source is "alarm"
\* (handleDigestAlarm) or "manual" (the sendDigestNow message); neither passes
\* a targetDate.
StartBuild(source) ==
  /\ HasFreeSlot
  /\ builds' = [builds EXCEPT ![FreeSlot] =
       [IdleBuild EXCEPT !.pc = "marker", !.source = source, !.date = now,
                         !.lastDigest = storage.lastDigestDate,
                         !.afterSuccess =
                            /\ \A j \in Slots : ~Running(builds[j])
                            /\ lastFinished = Some([day |-> UtcDay(now), success |-> TRUE])]]

\* faulty variant: the guard lets a build asked for by hand through
AlreadySentUnlessManual(b) == b.lastDigest = Some(UtcDay(b.date)) /\ b.source # "manual"

AlreadySent(b) == b.lastDigest = Some(UtcDay(b.date))

\* faulty variant: no short-circuit
NoEventsNever(events) == FALSE

NoEvents(events) == Len(events) = 0

\* from the marker read to the await of getPageContent
BuildAfterMarker(i) ==
  LET b == builds[i]
      events == getEventsForDay(eventLog, b.date)
  IN /\ b.pc = "marker"
     /\ LoadsAnswered
     /\ IF AlreadySent(b)
        THEN /\ builds' = [builds EXCEPT ![i] = Finish(b, "already_sent")]
             /\ NoteFinished(b)
        ELSE IF NoEvents(events)
        THEN /\ builds' = [builds EXCEPT ![i] = Finish([b EXCEPT !.nEvents = Len(events)], "no_events")]
             /\ NoteFinished(b)
        ELSE /\ builds' = [builds EXCEPT ![i] = [b EXCEPT !.pc = "content", !.nEvents = Len(events)]]
             /\ UNCHANGED lastFinished
     /\ UNCHANGED <<now, inputs, tz, deviceState, trackerVars, storeVars, configVars, idleVars, lifeVars, callVars,
                    deliveredDays, redeliveredDays, storage, alarms, persistPc, snapshotAt>>

\* faulty variant: both deliveries must succeed
SucceededBoth(b) == b.webhook = "ok" /\ b.logger = "ok"

Succeeded(b) == b.webhook = "ok" \/ b.logger = "ok"

\* what buildAndSendDigest returns after the deliveries: results.webhook is
\* always an object, so it is what the || chain yields
Returned(b) == IF b.webhook # "" THEN b.webhook ELSE IF b.logger # "" THEN b.logger ELSE "no_endpoint"

\* the end of buildAndSendDigest, from the last delivery result on: the marker
\* write is issued here, resetPageTimes() runs after its await
Conclude(i, b) ==
  IF Succeeded(b)
  THEN /\ storage' = [storage EXCEPT !.lastDigestDate = Some(UtcDay(b.date))]
       /\ builds' = [builds EXCEPT ![i] = [b EXCEPT !.pc = "marked", !.wrote = TRUE]]
       /\ UNCHANGED lastFinished
  ELSE /\ builds' = [builds EXCEPT ![i] = Finish(b, Returned(b))]
       /\ NoteFinished(b)
       /\ UNCHANGED storage

\* postToLogger as called by buildAndSendDigest, or the end when no logger is configured
LoggerStage(i, b) ==
  IF isLoggerConfigured
  THEN /\ builds' = [builds EXCEPT ![i] = [b EXCEPT !.pc = "logger", !.sends = @ + 1]]
       /\ UNCHANGED <<storage, lastFinished>>
  ELSE Conclude(i, b)

\* getPageContent(todayKey): the entries stored under the key of the UTC day
getPageContent(date) == ContentOfDay(UtcDay(date))

\* from the page content read to the webhook fetch (postToAgent)
BuildAfterContent(i) ==
  LET b == [builds[i] EXCEPT !.pages = getPageContent(builds[i].date)]
  IN /\ b.pc = "content"
     /\ IF ~NotConfigured(getConfig)
        THEN /\ builds' = [builds EXCEPT ![i] = [b EXCEPT !.pc = "webhook", !.sends = @ + 1]]
             /\ UNCHANGED <<storage, lastFinished>>
        ELSE LoggerStage(i, [b EXCEPT !.webhook = "not_configured"])
     /\ UNCHANGED <<now, inputs, tz, deviceState, trackerVars, storeVars, configVars, idleVars, lifeVars, callVars,
                    deliveredDays, redeliveredDays, alarms, persistPc, snapshotAt>>

FetchOutcomes == {"ok", "http_error"}

\* a digest reached a collaborator: counted once per build
NoteDelivery(b, outcome) ==
  IF outcome = "ok" /\ ~b.counted
  THEN /\ deliveredDays' = deliveredDays \cup {UtcDay(b.date)}
       /\ redeliveredDays' =
            IF UtcDay(b.date) \in deliveredDays
            THEN redeliveredDays \cup {UtcDay(b.date)} ELSE redeliveredDays
  ELSE UNCHANGED <<deliveredDays, redeliveredDays>>

\* the webhook fetch settles; postToAgent goes on to await updateStats
WebhookReply(i, outcome) ==
  LET b == builds[i]
  IN /\ b.pc = "webhook"
     /\ NoteDelivery(b, outcome)
     /\ builds' = [builds EXCEPT ![i] =
          [b EXCEPT !.pc = "webhook_stats", !.webhook = outcome,
                    !.counted = @ \/ outcome = "ok"]]
     /\ UNCHANGED <<now, inputs, tz, deviceState, trackerVars, storeVars, configVars, idleVars, lifeVars, callVars,
                    lastFinished, storage, alarms, persistPc, snapshotAt>>

\* sendDigest returns into buildAndSendDigest
WebhookReturn(i) ==
  LET b == builds[i]
  IN /\ b.pc = "webhook_stats"
     /\ LoggerStage(i, b)
     /\ UNCHANGED <<now, inputs, tz, deviceState, trackerVars, storeVars, configVars, idleVars, lifeVars, callVars,
                    deliveredDays, redeliveredDays, alarms, persistPc, snapshotAt>>

\* the logger fetch settles; postToLogger goes on to await updateLoggerStats
LoggerReply(i, outcome) ==
  LET b == builds[i]
  IN /\ b.pc = "logger"
     /\ NoteDelivery(b, outcome)
     /\ builds' = [builds EXCEPT ![i] =
          [b EXCEPT !.pc = "logger_stats", !.logger = outcome,
                    !.counted = @ \/ outcome = "ok"]]
     /\ UNCHANGED <<now, inputs, tz, deviceState, trackerVars, storeVars, configVars, idleVars, lifeVars, callVars,
                    lastFinished, storage, alarms, persistPc, snapshotAt>>

\* postToLogger returns into buildAndSendDigest
LoggerReturn(i) ==
  LET b == builds[i]
  IN /\ b.pc = "logger_stats"
     /\ Conclude(i, b)
     /\ UNCHANGED <<now, inputs, tz, deviceState, trackerVars, storeVars, configVars, idleVars, lifeVars, callVars,
                    deliveredDays, redeliveredDays, alarms, persistPc, snapshotAt>>

ZeroSums == [d \in Hosts |-> [totalMs |-> 0, sessions |-> 0]]

\* after the marker write: resetPageTimes() and the return
BuildAfterSet(i) ==
  LET b == builds[i]
      done == [b EXCEPT !.didReset = TRUE]
  IN /\ b.pc = "marked"
     /\ resetPageTimes
     /\ closedSum' = ZeroSums
     /\ builds' = [builds EXCEPT ![i] = Finish(done, Returned(b))]
     /\ NoteFinished(done)
     /\ UNCHANGED <<now, inputs, tz, deviceState, currentPage, sentUrls, extractTasks, storeVars,
                    configVars, idleVars, lifeVars, callVars, deliveredDays, redeliveredDays, storage,
                    alarms, persistPc, snapshotAt>>

-----------------------------------------------------------------------------
(* service-worker.js: process lifecycle *)

PERSIST_PERIOD_MS == Ms(5 * 60 * 1000)
DIGEST_PERIOD_MS == Ms(24 * 60 * 60 * 1000)

\* what the options page stores once the user has filled it in
SavedConfig ==
  [DEFAULT_CONFIG EXCEPT !.webhookUrl = "set", !.token = "set", !.enabled = TRUE]
LoggerOn == [loggerUrl |-> "set", loggerToken |-> "set", loggerEnabled |-> TRUE]
LoggerOff == [loggerUrl |-> "", loggerToken |-> "", loggerEnabled |-> FALSE]

EmptyStorage ==
  [config |-> Null, privacy |-> Null, loggerConfig |-> Null, eventLog |-> Null,
   storeMeta |-> Null, _pageTimes |-> Null, _currentPage |-> Null, _idleStart |-> Null,
   lastDigestDate |-> Null, storeRetention |-> Null, content |-> <<>>]

StartNow == DEFAULT_DIGEST_TIME - PERSIST_PERIOD_MS

\* the profile holds nothing, or what the options page stored earlier
Profiles ==
  {EmptyStorage,
   [EmptyStorage EXCEPT !.config = Some(SavedConfig), !.loggerConfig = Some(LoggerOn),
                        !.storeRetention = Some(DEFAULT_RETENTION_DAYS)]}

\* The service worker script has just been evaluated: module state at its
\* initial values, the top-level listeners registered, the persistence alarm
\* created, initialize() awaiting its four loads.
NoFeed == [order |-> "none", best |-> <<>>, last |-> Null]

Start(profiles, zones) ==
  /\ now = StartNow
  /\ inputs = 0
  /\ tz \in zones
  /\ deviceState = "active"
  /\ cachedSettings = Null
  /\ cachedConfig = Null
  /\ cachedLogger = Null
  /\ currentPage = Null
  /\ pageTimeLog = <<>>
  /\ sentUrls = {}
  /\ extractTasks = {}
  /\ eventLog = <<>>
  /\ storeMeta = EmptyMeta
  /\ lastIdleStart = Null
  /\ currentState = "active"
  /\ storage \in profiles
  /\ alarms = [persist |-> Some(StartNow + PERSIST_PERIOD_MS), digest |-> Null]
  /\ phase = "loading"
  /\ initSnap = storage
  /\ listening = FALSE
  /\ persistPc = "idle"
  /\ builds = [i \in Slots |-> IdleBuild]
  /\ closedSum = ZeroSums
  /\ snapshotAt = StartNow
  /\ deliveredDays = {}
  /\ redeliveredDays = {}
  /\ lastFinished = Null
  /\ storeCall = Null
  /\ clearedAt = Null
  /\ lastSignal = Null
  /\ outbound = {}

Init == Start(Profiles, {0}) /\ feed = NoFeed

\* The worker is torn down and its script evaluated again: memory is back at
\* the module's initial values, in-flight handlers are gone, the persistence
\* alarm is created anew and initialize() issues its loads.
Restart ==
  /\ Spend
  /\ cachedSettings' = Null
  /\ cachedConfig' = Null
  /\ cachedLogger' = Null
  /\ currentPage' = Null
  /\ pageTimeLog' = <<>>
  /\ sentUrls' = {}
  /\ extractTasks' = {}
  /\ eventLog' = <<>>
  /\ storeMeta' = EmptyMeta
  /\ lastIdleStart' = Null
  /\ currentState' = "active"
  /\ alarms' = [alarms EXCEPT !.persist = Some(now + PERSIST_PERIOD_MS)]
  /\ phase' = "loading"
  /\ initSnap' = storage
  /\ listening' = FALSE
  /\ persistPc' = "idle"
  /\ builds' = [i \in Slots |->
                  IF builds[i].pc \in {"idle", "done"} THEN builds[i]
                  ELSE [builds[i] EXCEPT !.pc = "gone"]]
  /\ UNCHANGED <<now, tz, deviceState, storage, closedSum, snapshotAt, deliveredDays,
                 redeliveredDays, lastFinished, callVars>>

OrElse(o, default) == IF IsNull(o) THEN default ELSE Val(o)

\* loadPrivacySettings: { ...DEFAULT_SETTINGS, ...result.privacy }
WithDefaults(stored) ==
  [f \in DOMAIN DEFAULT_SETTINGS |-> IF f \in DOMAIN stored THEN stored[f] ELSE DEFAULT_SETTINGS[f]]

\* initialize() after its Promise.all: loadPrivacySettings, loadConfig, initStore
\* and restorePageTimes assign what their reads returned, then the listeners
\* are registered and the digest is scheduled.
InitComplete ==
  LET settings == WithDefaults(OrElse(initSnap.privacy, DEFAULT_SETTINGS))
      config == OrElse(initSnap.config, DEFAULT_CONFIG)
  IN /\ phase = "loading"
     /\ cachedSettings' = Some(settings)
     /\ cachedConfig' = Some(config)
     /\ eventLog' = OrElse(initSnap.eventLog, <<>>)
     /\ storeMeta' = OrElse(initSnap.storeMeta, EmptyMeta)
     /\ pageTimeLog' = OrElse(initSnap._pageTimes, pageTimeLog)
     /\ currentPage' = IF IsNull(initSnap._currentPage) THEN currentPage ELSE initSnap._currentPage
     /\ listening' = settings.enabled
     /\ lastIdleStart' = IF settings.enabled /\ ~IsNull(storage._idleStart)
                         THEN storage._idleStart ELSE lastIdleStart
     /\ alarms' = IF ConfigOk(config) THEN scheduleDigest(alarms, config) ELSE alarms
     /\ phase' = "ready"
     /\ initSnap' = EmptyStorage
     /\ UNCHANGED <<now, inputs, tz, deviceState, cachedLogger, sentUrls, extractTasks, closedSum,
                    currentState, digestVars, callVars, storage, persistPc, snapshotAt>>

\* No handler is waiting on chrome.storage.  Storage answers within the same
\* second and in the order asked, so the continuation of a handler that waits on
\* it runs before the next browser event is dispatched; only a teardown can fall
\* between the two.  Waits on the network and on a tab's content script are
\* open-ended.
Settled ==
  /\ phase = "ready"
  /\ persistPc = "idle"
  /\ \A i \in Slots : builds[i].pc \in {"idle", "done", "gone", "webhook", "logger"}
  /\ \A task \in extractTasks : task.pc = "asked"

-----------------------------------------------------------------------------
(* events/tabs.js, events/idle.js *)

StoreWrites == {"ok"}

\* chrome.tabs.onUpdated (kind "navigation") and chrome.tabs.onActivated (kind
\* "tab.activated"): both filter on shouldTrack, track the page, record the event
TabTracked(kind, url, title, tabId) ==
  /\ Settled
  /\ Spend
  /\ listening
  /\ url # EmptyUrl /\ shouldTrack(url)
  /\ trackPageChange(url, title, tabId)
  /\ \E out \in StoreWrites :
       LET s == recordEvent(StoreState, [type |-> kind, url |-> url, title |-> title], now, out)
       IN /\ StoreBecomes(s)
          /\ storage' = [storage EXCEPT !.eventLog = s.dLog, !.storeMeta = s.dMeta]
  /\ UNCHANGED <<now, tz, deviceState, configVars, idleVars, lifeVars, storeCall, feed,
                 clearedAt, outbound, digestVars, alarms, persistPc, snapshotAt>>

OnTabEvent(kind, url, title, tabId) == TabTracked(kind, url, title, tabId) /\ UNCHANGED lastSignal

\* the same two listeners for any tab the browser reports, the tabs they return
\* early on included; the signal is noted as the browser's latest
TabSignal(kind, tab, url) ==
  /\ lastSignal' = Some([kind |-> kind, url |-> url, tab |-> tab, idled |-> FALSE])
  /\ IF url # EmptyUrl /\ shouldTrack(url)
     THEN TabTracked(kind, url, "t", tab.id)
     ELSE /\ Settled
          /\ Spend
          /\ listening
          /\ UNCHANGED <<now, tz, deviceState, trackerVars, storeVars, configVars, idleVars,
                         lifeVars, storeCall, feed, clearedAt, outbound, digestVars, storage,
                         alarms, persistPc, snapshotAt>>

\* chrome.bookmarks.onCreated
OnBookmarkCreated(url, title) ==
  /\ Settled
  /\ Spend
  /\ listening
  /\ \E out \in StoreWrites :
       LET s == recordEvent(StoreState,
                  [type |-> "bookmark.created", url |-> url, title |-> title], now, out)
       IN /\ StoreBecomes(s)
          /\ storage' = [storage EXCEPT !.eventLog = s.dLog, !.storeMeta = s.dMeta]
  /\ outbound' = outbound \cup sendBookmarkEvent(title, url)
  /\ UNCHANGED <<now, tz, deviceState, trackerVars, configVars, idleVars, lifeVars, storeCall,
                 feed, clearedAt, lastSignal, digestVars, alarms, persistPc, snapshotAt>>

\* chrome.downloads.onChanged, for a download reported complete
OnDownloadCompleted(itemUrl, filename) ==
  LET url == sanitizeUrl(itemUrl)
  IN /\ Settled
     /\ Spend
     /\ listening
     /\ shouldTrack(itemUrl)
     /\ \E out \in StoreWrites :
          LET s == recordEvent(StoreState,
                     [type |-> "download.completed", url |-> url, title |-> "",
                      info |-> [filename |-> filename]], now, out)
          IN /\ StoreBecomes(s)
             /\ storage' = [storage EXCEPT !.eventLog = s.dLog, !.storeMeta = s.dMeta]
     /\ outbound' = outbound \cup sendDownloadEvent(filename, url)
     /\ UNCHANGED <<now, tz, deviceState, trackerVars, configVars, idleVars, lifeVars, storeCall,
                    feed, clearedAt, lastSignal, digestVars, alarms, persistPc, snapshotAt>>

COMEBACK_MINUTES == 30

\* Math.round((now - idleStart) / 60000)
AwayMinutes(idleStart) == (now - idleStart + 30) \div 60

\* chrome.idle.onStateChanged
IdleChanged(newState) ==
  /\ Settled
  /\ Spend
  /\ listening
  /\ newState # deviceState
  /\ deviceState' = newState
  /\ currentState' = newState
  /\ \E out \in StoreWrites :
       LET s1 == recordEvent(StoreState,
                   [type |-> "idle", url |-> EmptyUrl, title |-> "",
                    info |-> [state |-> newState]], now, out)
           comeback == /\ newState = "active"
                       /\ ~IsNull(lastIdleStart)
                       /\ AwayMinutes(Val(lastIdleStart)) >= COMEBACK_MINUTES
           s2 == IF comeback
                 THEN recordEvent(s1,
                        [type |-> "user.comeback", url |-> EmptyUrl, title |-> "",
                         info |-> [awayMinutes |-> AwayMinutes(Val(lastIdleStart))]], now, out)
                 ELSE s1
           goIdle == newState \in {"idle", "locked"} /\ currentState = "active"
       IN /\ StoreBecomes(s2)
          /\ storage' = [storage EXCEPT
               !.eventLog = s2.dLog, !.storeMeta = s2.dMeta,
               !._idleStart = IF goIdle THEN Some(now)
                              ELSE IF newState = "active" THEN Null ELSE @]
          /\ lastIdleStart' = IF goIdle THEN Some(now)
                              ELSE IF newState = "active" THEN Null ELSE lastIdleStart
          /\ IF goIdle THEN trackIdle ELSE UNCHANGED trackerVars
          /\ outbound' = IF comeback
                         THEN outbound \cup sendComebackEvent(AwayMinutes(Val(lastIdleStart)))
                         ELSE outbound
  /\ UNCHANGED <<now, tz, configVars, lifeVars, storeCall, feed, clearedAt, digestVars, alarms,
                 persistPc, snapshotAt>>

OnIdleStateChanged(newState) == IdleChanged(newState) /\ UNCHANGED lastSignal

\* the same listener, the close-out it makes noted against the latest tab signal
IdleSignal(newState) ==
  /\ IdleChanged(newState)
  /\ lastSignal' =
       IF ~IsNull(lastSignal) /\ newState \in {"idle", "locked"} /\ currentState = "active"
       THEN Some([Val(lastSignal) EXCEPT !.idled = TRUE]) ELSE lastSignal

-----------------------------------------------------------------------------
(* service-worker.js: alarms and messages *)

\* chrome.alarms.onAlarm for 'starkchrome-persist', up to the await of
\* flushStore; outs is how the storage write may end.  When flushStore rejects
\* the handler ends there.
PersistTick(outs) ==
  /\ Settled
  /\ ~IsNull(alarms.persist) /\ now >= Val(alarms.persist)
  /\ alarms' = [alarms EXCEPT !.persist = Some(now + PERSIST_PERIOD_MS)]
  /\ \E out \in outs :
       LET s == flushStore(StoreState, now, out)
       IN /\ StoreBecomes(s)
          /\ storage' = [storage EXCEPT !.eventLog = s.dLog, !.storeMeta = s.dMeta]
          /\ persistPc' = IF PersistRaises(out) THEN "idle" ELSE "flushed"
  /\ UNCHANGED <<now, inputs, tz, deviceState, trackerVars, configVars, idleVars, lifeVars, callVars,
                 digestVars, snapshotAt>>

PersistAlarm == PersistTick(StoreWrites)

\* the rest of that handler: persistPageTimes()
PersistAlarmSnapshot ==
  /\ persistPc = "flushed"
  /\ LoadsAnswered
  /\ persistPageTimes
  /\ persistPc' = "idle"
  /\ snapshotAt' = now
  /\ UNCHANGED <<now, inputs, tz, deviceState, trackerVars, storeVars, configVars, idleVars,
                 lifeVars, callVars, digestVars, alarms>>

\* chrome.alarms.onAlarm for 'starkchrome-daily-digest': handleDigestAlarm
DigestAlarm ==
  /\ Settled
  /\ ~IsNull(alarms.digest) /\ now >= Val(alarms.digest)
  /\ alarms' = [alarms EXCEPT !.digest = Some(now + DIGEST_PERIOD_MS)]
  /\ StartBuild("alarm")
  /\ UNCHANGED <<now, inputs, tz, deviceState, trackerVars, storeVars, configVars, idleVars,
                 lifeVars, callVars, deliveredDays, redeliveredDays, lastFinished, storage, persistPc,
                 snapshotAt>>

\* chrome.runtime.onMessage {action: 'sendDigestNow'} from the popup or options page
SendDigestNow ==
  /\ Settled
  /\ Spend
  /\ StartBuild("manual")
  /\ UNCHANGED <<now, tz, deviceState, trackerVars, storeVars, configVars, idleVars,
                 lifeVars, callVars, deliveredDays, redeliveredDays, lastFinished, storage, alarms,
                 persistPc, snapshotAt>>

\* The worker had been stopped and an alarm starts it: the script is evaluated
\* (memory at the module's initial values, the persistence alarm created anew,
\* initialize() awaiting its reads of what storage holds now) and the alarm is
\* handed to the onAlarm listener, which does not wait for initialize().
WokenByAlarm ==
  /\ Settled
  /\ Spend
  /\ cachedSettings' = Null
  /\ cachedConfig' = Null
  /\ cachedLogger' = Null
  /\ currentPage' = Null
  /\ pageTimeLog' = <<>>
  /\ sentUrls' = {}
  /\ extractTasks' = {}
  /\ lastIdleStart' = Null
  /\ currentState' = "active"
  /\ phase' = "loading"
  /\ initSnap' = storage
  /\ listening' = FALSE
  /\ UNCHANGED <<now, tz, deviceState, closedSum, snapshotAt, deliveredDays, redeliveredDays,
                 lastFinished, callVars>>

TornDown(b) == IF b.pc \in {"idle", "done"} THEN b ELSE [b EXCEPT !.pc = "gone"]

\* woken by 'starkchrome-persist': flushStore() writes the store's memory as it
\* is before initStore's read has been answered
WakeByPersistAlarm ==
  /\ WokenByAlarm
  /\ ~IsNull(alarms.persist) /\ now >= Val(alarms.persist)
  /\ alarms' = [alarms EXCEPT !.persist = Some(now + PERSIST_PERIOD_MS)]
  /\ \E out \in StoreWrites :
       LET s == flushStore([log |-> <<>>, meta |-> EmptyMeta, dLog |-> storage.eventLog,
                            dMeta |-> storage.storeMeta], now, out)
       IN /\ StoreBecomes(s)
          /\ storage' = [storage EXCEPT !.eventLog = s.dLog, !.storeMeta = s.dMeta]
          /\ persistPc' = IF PersistRaises(out) THEN "idle" ELSE "flushed"
  /\ builds' = [i \in Slots |-> TornDown(builds[i])]

\* woken by 'starkchrome-daily-digest': buildAndSendDigest() runs up to its read
\* of the marker; atStart notes the event log storage held when the worker started
WakeByDigestAlarm ==
  /\ WokenByAlarm
  /\ ~IsNull(alarms.digest) /\ now >= Val(alarms.digest)
  /\ alarms' = [alarms EXCEPT !.persist = Some(now + PERSIST_PERIOD_MS),
                              !.digest = Some(now + DIGEST_PERIOD_MS)]
  /\ HasFreeSlot
  /\ builds' = [i \in Slots |->
       IF i = FreeSlot
       THEN [IdleBuild EXCEPT !.pc = "marker", !.source = "alarm", !.date = now,
                              !.lastDigest = storage.lastDigestDate,
                              !.atStart = Some(OrElse(storage.eventLog, <<>>))]
       ELSE TornDown(builds[i])]
  /\ eventLog' = <<>>
  /\ storeMeta' = EmptyMeta
  /\ UNCHANGED <<storage, persistPc>>

-----------------------------------------------------------------------------
(* options.js save(), and the storage.onChanged listeners it triggers *)

OptionsSave(config, loggerConfig, blocklist, retention) ==
  LET privacy == [enabled |-> OrElse(storage.privacy, DEFAULT_SETTINGS).enabled,
                  trackIncognito |-> FALSE, domainBlocklist |-> blocklist]
      oldConfig == OrElse(storage.config, DEFAULT_CONFIG)
      configChanged == storage.config # Some(config)
  IN /\ Settled
     /\ Spend
     /\ storage' = [storage EXCEPT !.config = Some(config), !.privacy = Some(privacy),
                                   !.loggerConfig = Some(loggerConfig),
                                   !.storeRetention = Some(retention)]
     /\ cachedSettings' = IF storage.privacy # Some(privacy) THEN Some(privacy) ELSE cachedSettings
     /\ cachedConfig' = IF configChanged THEN Some(config) ELSE cachedConfig
     /\ cachedLogger' = IF storage.loggerConfig # Some(loggerConfig)
                        THEN Some(loggerConfig) ELSE cachedLogger
     /\ alarms' = IF configChanged /\ config.enabled /\ ~oldConfig.enabled /\ config.webhookUrl # ""
                  THEN scheduleDigest(alarms, config) ELSE alarms
     /\ UNCHANGED <<now, tz, deviceState, trackerVars, storeVars, idleVars, lifeVars, callVars,
                    digestVars, persistPc, snapshotAt>>

-----------------------------------------------------------------------------
(* time *)

DueTimes == {Val(alarms[a]) : a \in {a \in {"persist", "digest"} : ~IsNull(alarms[a])}}

Tick(d) ==
  /\ Settled
  /\ Spend
  /\ d > 0
  /\ \A t \in DueTimes : now + d <= t
  /\ now' = now + d
  /\ UNCHANGED <<tz, deviceState, trackerVars, storeVars, configVars, idleVars, lifeVars, callVars,
                 digestVars, storage, alarms, persistPc, snapshotAt>>

\* popup.js: the master toggle is switched to checked.  The handler reads the
\* stored privacy object ({} when there is none), sets enabled and writes it
\* back; privacy.js's storage.onChanged listener takes the new value as the
\* cached settings.
PopupToggle(checked) ==
  LET privacy == IF IsNull(storage.privacy) THEN [enabled |-> checked]
                 ELSE [Val(storage.privacy) EXCEPT !.enabled = checked]
  IN /\ Settled
     /\ Spend
     /\ OrElse(storage.privacy, DEFAULT_SETTINGS).enabled # checked
     /\ storage' = [storage EXCEPT !.privacy = Some(privacy)]
     /\ cachedSettings' = Some(privacy)
     /\ UNCHANGED <<now, tz, deviceState, trackerVars, storeVars, cachedConfig, cachedLogger,
                    idleVars, lifeVars, callVars, digestVars, alarms, persistPc, snapshotAt>>

-----------------------------------------------------------------------------
(* The extension in the browser *)

Jumps == {5}
TabUrls == {UrlExample, UrlBank, UrlNewTab}
IdleStates == {"active", "idle"}

\* the clock moves by a short step, or to the moment the next alarm is due
Advance ==
  \/ \E d \in Jumps : Tick(d)
  \/ \E t \in DueTimes : Tick(t - now)

TabEvent == \E url \in TabUrls : OnTabEvent("navigation", url, "t", 1)
IdleEvent == \E newState \in IdleStates : OnIdleStateChanged(newState)
Save == OptionsSave(SavedConfig, LoggerOn, DefaultBlocklist, DEFAULT_RETENTION_DAYS)
Extraction ==
  \E task \in extractTasks :
    \/ \E reply \in ContentReplies : ExtractReply(task, reply)
    \/ ExtractStore(task)
Build ==
  \E i \in Slots :
    \/ BuildAfterMarker(i)
    \/ BuildAfterContent(i)
    \/ \E outcome \in FetchOutcomes : WebhookReply(i, outcome)
    \/ WebhookReturn(i)
    \/ \E outcome \in FetchOutcomes : LoggerReply(i, outcome)
    \/ LoggerReturn(i)
    \/ BuildAfterSet(i)

Next ==
  \/ InitComplete
  \/ Restart
  \/ Advance
  \/ TabEvent
  \/ IdleEvent
  \/ Save
  \/ PersistAlarm
  \/ PersistAlarmSnapshot
  \/ DigestAlarm
  \/ SendDigestNow
  \/ Build
  \/ Extraction

Spec == Init /\ [][Next]_vars

-----------------------------------------------------------------------------
(* The digest builder with the worker, the tabs and the alarms around it, on  *)
(* shorter runs                                                               *)

MaxDigestInputs == 4

NextDigest ==
  /\ \/ InitComplete
     \/ Restart
     \/ Advance
     \/ TabEvent
     \/ Save
     \/ PersistAlarm
     \/ PersistAlarmSnapshot
     \/ DigestAlarm
     \/ SendDigestNow
     \/ Build
     \/ Extraction
  /\ inputs' <= MaxDigestInputs

SpecDigest == Init /\ [][NextDigest]_vars

-----------------------------------------------------------------------------
(* tracker.js driven through its exports, within one life of the worker *)

MaxElapses == 2
TrackerJumps == {2, 3, 20, 40, 60, 1801}
TrackerUrls == {UrlExample, UrlGithub, UrlFile}

Elapse(d) ==
  /\ inputs < MaxElapses
  /\ inputs' = inputs + 1
  /\ now' = now + d
  /\ UNCHANGED <<tz, deviceState, trackerVars, storeVars, configVars, idleVars, lifeVars, callVars,
                 digestVars, storage, alarms, persistPc, snapshotAt>>

CallTrackPageChange(url) ==
  /\ trackPageChange(url, "t", 1)
  /\ UNCHANGED <<now, inputs, tz, deviceState, storeVars, configVars, idleVars, lifeVars, callVars,
                 digestVars, storage, alarms, persistPc, snapshotAt>>

CallTrackIdle ==
  /\ ~IsNull(currentPage)
  /\ trackIdle
  /\ UNCHANGED <<now, inputs, tz, deviceState, storeVars, configVars, idleVars, lifeVars, callVars,
                 digestVars, storage, alarms, persistPc, snapshotAt>>

CallResetPageTimes ==
  /\ pageTimeLog # <<>>
  /\ resetPageTimes
  /\ closedSum' = ZeroSums
  /\ UNCHANGED <<now, inputs, tz, deviceState, currentPage, sentUrls, extractTasks, storeVars, configVars, idleVars, lifeVars, callVars, digestVars, storage, alarms,
                 persistPc, snapshotAt>>

NextTracker ==
  \/ \E d \in TrackerJumps : Elapse(d)
  \/ \E url \in TrackerUrls : CallTrackPageChange(url)
  \/ CallTrackIdle
  \/ CallResetPageTimes
  \/ Extraction

SpecTracker == Init /\ [][NextTracker]_vars

-----------------------------------------------------------------------------
(* store.js addPageContent called for one page after the other within one    *)
(* day, each call ending before the next begins                              *)

MaxPages == 60
MaxRevisits == 1
Orders == {"rising", "falling", "zigzag", "flat", "steps"}
RevisitPages == {1, 50}
Deltas == {0 - 1, 0, 1}

PageUrl(k) == MkUrl("https", "example.com", "/p" \o ToString(k), {}, FALSE)

\* the dwell time the k-th page is first stored with
TimeSpentOf(order, k) ==
  CASE order = "rising" -> CONTENT_MIN_MS + k
    [] order = "falling" -> CONTENT_MAX_MS - k
    [] order = "zigzag" -> IF k % 2 = 0 THEN CONTENT_MIN_MS + k ELSE CONTENT_MAX_MS - k
    [] order = "steps" -> CONTENT_MIN_MS + (k % 7)
    [] OTHER -> 10 * CONTENT_MIN_MS

InitContent ==
  /\ Start({EmptyStorage}, {0})
  /\ feed \in {[NoFeed EXCEPT !.order = o] : o \in Orders}

CallAddPageContent(k, title, timeSpent) ==
  LET entry == [day |-> UtcDay(now), url |-> sanitizeUrl(PageUrl(k)), title |-> title,
                timeSpent |-> timeSpent, meta |-> [url |-> PageUrl(k)], timestamp |-> now]
  IN /\ storage' = [storage EXCEPT !.content =
          SelectSeq(@, LAMBDA e : e.day # entry.day)
            \o addPageContent(ContentOfDay(entry.day), entry)]
     /\ feed' = [feed EXCEPT
          !.best = IF k > Len(@) THEN Append(@, timeSpent)
                   ELSE [@ EXCEPT ![k] = IF timeSpent > @ THEN timeSpent ELSE @],
          !.last = Some(entry)]
     /\ UNCHANGED <<now, tz, deviceState, trackerVars, storeVars, configVars, idleVars,
                    lifeVars, digestVars, storeCall, seenVars, alarms, persistPc, snapshotAt>>

FirstVisit ==
  /\ Len(feed.best) < MaxPages
  /\ CallAddPageContent(Len(feed.best) + 1, "t", TimeSpentOf(feed.order, Len(feed.best) + 1))
  /\ UNCHANGED inputs

Revisit ==
  /\ inputs < MaxRevisits
  /\ inputs' = inputs + 1
  /\ \E k \in RevisitPages \cap (1..Len(feed.best)), d \in Deltas :
       CallAddPageContent(k, "again", feed.best[k] + d)

NextContent == FirstVisit \/ Revisit

SpecContent == InitContent /\ [][NextContent]_vars

-----------------------------------------------------------------------------
(* store.js driven through its exports, with the persistence tick and the    *)
(* options page's clear button, on a profile that already holds events       *)

MaxStoreInputs == 3
AllStoreWrites == {"ok", "quota", "quota2", "error"}
Zones == {0, 3600}

\* the log entry recordEvent makes of a navigation to UrlExample at time t
Entry(t) ==
  recordEvent([log |-> <<>>, meta |-> EmptyMeta, dLog |-> Null, dMeta |-> Null],
              [type |-> "navigation", url |-> UrlExample, title |-> "t"], t, "ok").log[1]

LogAt(times) == [i \in 1..Len(times) |-> Entry(times[i])]
MetaOf(log) ==
  [totalEvents |-> Len(log), oldestEvent |-> Some(log[1].t), newestEvent |-> Some(log[Len(log)].t)]

\* events around the retention cutoff of the first writes, an event a month
\* old, and events around the local midnights of the two time zones
OldTimes ==
  <<StartNow - DEFAULT_RETENTION_DAYS * DAY_MS - 1,
    StartNow - DEFAULT_RETENTION_DAYS * DAY_MS,
    StartNow - DEFAULT_RETENTION_DAYS * DAY_MS + 1,
    StartNow + PERSIST_PERIOD_MS - DEFAULT_RETENTION_DAYS * DAY_MS,
    StartNow + PERSIST_PERIOD_MS - DEFAULT_RETENTION_DAYS * DAY_MS + 1,
    StartNow - 31 * DAY_MS,
    0 - DAY_MS - 3601, 0 - DAY_MS - 3600, 0 - DAY_MS - 1, 0 - DAY_MS,
    0 - 3601, 0 - 3600, 0 - 1, 0>>

OldLog == LogAt(OldTimes)
BigLog == [i \in 1..(QuotaTail + 3) |-> Entry(StartNow - (QuotaTail + 3) + i - 1)]

StoreProfiles ==
  {EmptyStorage,
   [EmptyStorage EXCEPT
      !.eventLog = Some(OldLog), !.storeMeta = Some(MetaOf(OldLog)),
      !.storeRetention = Some(30),
      !.content = <<[day |-> UtcDay(StartNow), url |-> sanitizeUrl(UrlExample), title |-> "t",
                     timeSpent |-> CONTENT_MIN_MS, meta |-> [url |-> UrlExample],
                     timestamp |-> StartNow]>>],
   [EmptyStorage EXCEPT !.eventLog = Some(BigLog), !.storeMeta = Some(MetaOf(BigLog))]}

InitStore == Start(StoreProfiles, Zones) /\ feed = NoFeed

Call(op, out, raised, date, result) ==
  Some([op |-> op, out |-> out, raised |-> raised, date |-> date, result |-> result])

CallRecordEvent(url, out) ==
  LET s == recordEvent(StoreState, [type |-> "navigation", url |-> url, title |-> "t"], now, out)
      writes == (Len(eventLog) + 1) % 5 = 0
  IN /\ Settled
     /\ Spend
     /\ StoreBecomes(s)
     /\ storage' = [storage EXCEPT !.eventLog = s.dLog, !.storeMeta = s.dMeta]
     /\ storeCall' = Call("recordEvent", IF writes THEN out ELSE "none",
                          writes /\ PersistRaises(out), now, <<>>)
     /\ UNCHANGED <<now, tz, deviceState, trackerVars, configVars, idleVars, lifeVars,
                    digestVars, feed, seenVars, alarms, persistPc, snapshotAt>>

CallFlushStore(out) ==
  LET s == flushStore(StoreState, now, out)
  IN /\ Settled
     /\ Spend
     /\ StoreBecomes(s)
     /\ storage' = [storage EXCEPT !.eventLog = s.dLog, !.storeMeta = s.dMeta]
     /\ storeCall' = Call("flushStore", out, PersistRaises(out), now, <<>>)
     /\ UNCHANGED <<now, tz, deviceState, trackerVars, configVars, idleVars, lifeVars,
                    digestVars, feed, seenVars, alarms, persistPc, snapshotAt>>

CallGetEventsForDay(date) ==
  /\ Settled
  /\ Spend
  /\ storeCall' = Call("getEventsForDay", "none", FALSE, date, getEventsForDay(eventLog, date))
  /\ UNCHANGED <<now, tz, deviceState, trackerVars, storeVars, configVars, idleVars,
                 lifeVars, digestVars, feed, seenVars, storage, alarms, persistPc, snapshotAt>>

\* store.js clearStore
clearStore ==
  /\ eventLog' = <<>>
  /\ storeMeta' = EmptyMeta
  /\ storage' = [storage EXCEPT !.eventLog = Null, !.storeMeta = Null]

CallClearStore ==
  /\ Settled
  /\ Spend
  /\ clearStore
  /\ storeCall' = Call("clearStore", "none", FALSE, now, <<>>)
  /\ UNCHANGED <<now, tz, deviceState, trackerVars, configVars, idleVars, lifeVars,
                 digestVars, feed, seenVars, alarms, persistPc, snapshotAt>>

\* options.js: the Clear data button, confirmed; the page removes the keys
\* itself, the worker's memory is not told
OptionsClear ==
  /\ Settled
  /\ Spend
  /\ storage' = [storage EXCEPT !.eventLog = Null, !.storeMeta = Null]
  /\ clearedAt' = Some(now)
  /\ UNCHANGED <<now, tz, deviceState, trackerVars, storeVars, configVars, idleVars, lifeVars,
                 digestVars, storeCall, feed, lastSignal, outbound, alarms, persistPc, snapshotAt>>

NextStore ==
  /\ \/ InitComplete
     \/ Advance
     \/ \E out \in AllStoreWrites : CallRecordEvent(UrlExample, out)
     \/ \E out \in AllStoreWrites : CallFlushStore(out)
     \/ \E date \in {now, now - DAY_MS} : CallGetEventsForDay(date)
     \/ CallClearStore
     \/ OptionsClear
     \/ PersistTick(AllStoreWrites)
     \/ PersistAlarmSnapshot
  /\ inputs' <= MaxStoreInputs

SpecStore == InitStore /\ [][NextStore]_vars

-----------------------------------------------------------------------------
(* The listeners of events/*.js with the worker, the options page and the     *)
(* digest builder around them, within one life of the worker                  *)

MaxEventInputs == 3
NormalTab == [id |-> 1, incognito |-> FALSE]
IncognitoTab == [id |-> 2, incognito |-> TRUE]
\* a page loads in the normal window's tab; the user switches to the incognito tab
TabSignals == {<<"navigation", NormalTab>>, <<"tab.activated", IncognitoTab>>}
EventUrls == {UrlSearch, UrlBank, UrlNewTab}
EventTypes ==
  {"navigation", "tab.activated", "bookmark.created", "download.completed", "idle",
   "user.comeback"}
CalledTypes == {"navigation", "history.visit"}

\* the options page stores a filled-in connection with Enabled unticked
SaveDisabled ==
  OptionsSave([SavedConfig EXCEPT !.enabled = FALSE], LoggerOff, DefaultBlocklist,
              DEFAULT_RETENTION_DAYS)

\* recordEvent called with an event of the given type
CallRecordEventAs(type) ==
  /\ Settled
  /\ Spend
  /\ \E out \in StoreWrites :
       LET s == recordEvent(StoreState, [type |-> type, url |-> UrlExample, title |-> "t"],
                            now, out)
       IN /\ StoreBecomes(s)
          /\ storage' = [storage EXCEPT !.eventLog = s.dLog, !.storeMeta = s.dMeta]
  /\ storeCall' = Call("recordEvent", "none", FALSE, now, <<>>)
  /\ UNCHANGED <<now, tz, deviceState, trackerVars, configVars, idleVars, lifeVars,
                 digestVars, feed, seenVars, alarms, persistPc, snapshotAt>>

NextEvents ==
  /\ \/ InitComplete
     \/ Advance
     \/ \E sig \in TabSignals, url \in EventUrls : TabSignal(sig[1], sig[2], url)
     \/ \E url \in EventUrls : OnBookmarkCreated(url, "b")
     \/ \E url \in EventUrls : OnDownloadCompleted(url, "f.pdf")
     \/ \E newState \in IdleStates : IdleSignal(newState)
     \/ Save
     \/ SaveDisabled
     \/ \E type \in CalledTypes : CallRecordEventAs(type)
     \/ PersistAlarm
     \/ PersistAlarmSnapshot
     \/ DigestAlarm
     \/ SendDigestNow
     \/ Build
     \/ Extraction
  /\ inputs' <= MaxEventInputs

SpecEvents == Init /\ [][NextEvents]_vars

-----------------------------------------------------------------------------
(* store.js getDomainStats applied to the log the worker loaded at start-up   *)

MaxStatsCalls == 1
MaxLogLen == 3

\* what the listeners hand to recordEvent
SampleEvents ==
  {[type |-> "navigation", url |-> UrlExample, title |-> "t"],
   [type |-> "tab.activated", url |-> UrlGithub, title |-> ""],
   [type |-> "navigation", url |-> UrlFile, title |-> "doc"],
   [type |-> "bookmark.created", url |-> UrlGithub, title |-> "b"],
   [type |-> "idle", url |-> EmptyUrl, title |-> "", info |-> [state |-> "idle"]],
   [type |-> "user.comeback", url |-> EmptyUrl, title |-> "", info |-> [awayMinutes |-> 45]]}

\* the log recordEvent builds of the events, one every minute up to StartNow
RECURSIVE Recorded(_)
Recorded(events) ==
  IF events = <<>> THEN [log |-> <<>>, meta |-> EmptyMeta, dLog |-> Null, dMeta |-> Null]
  ELSE recordEvent(Recorded(SubSeq(events, 1, Len(events) - 1)), events[Len(events)],
                   StartNow - 60 * (MaxLogLen + 1 - Len(events)), "ok")

SampleLogs ==
  {Recorded(events) : events \in UNION {[1..n -> SampleEvents] : n \in 0..MaxLogLen}}

StatsProfiles ==
  {[EmptyStorage EXCEPT !.eventLog = Some(r.log), !.storeMeta = Some(r.meta)] : r \in SampleLogs}

InitStats == Start(StatsProfiles, {0}) /\ feed = NoFeed

CallGetDomainStats ==
  /\ phase = "ready"
  /\ inputs < MaxStatsCalls
  /\ inputs' = inputs + 1
  /\ storeCall' = Call("getDomainStats", "none", FALSE, now, getDomainStats(eventLog))
  /\ UNCHANGED <<now, tz, deviceState, trackerVars, storeVars, configVars, idleVars,
                 lifeVars, digestVars, feed, seenVars, storage, alarms, persistPc, snapshotAt>>

NextStats == InitComplete \/ CallGetDomainStats

SpecStats == InitStats /\ [][NextStats]_vars

-----------------------------------------------------------------------------
(* digest.js formatDigest applied to a day of visits, a bookmark and a download *)

MaxReportCalls == 1
MaxOtherSites == 16

OtherHosts ==
  <<"s01.test", "s02.test", "s03.test", "s04.test", "s05.test", "s06.test", "s07.test",
    "s08.test", "s09.test", "s10.test", "s11.test", "s12.test", "s13.test", "s14.test",
    "s15.test", "s16.test", "s17.test", "s18.test">>

GithubVisit == [type |-> "navigation", url |-> UrlGithub, title |-> "repo"]
BookmarkX == [type |-> "bookmark.created", url |-> UrlExample, title |-> "X"]
DownloadReport ==
  [type |-> "download.completed", url |-> UrlExample, title |-> "",
   info |-> [filename |-> "report.pdf"]]
OtherVisit(k) ==
  [type |-> "navigation", url |-> MkUrl("https", OtherHosts[k], "/", {}, FALSE), title |-> "t"]

Times(n, e) == [i \in 1..n |-> e]

\* one visit of each of n other sites
OtherVisits(n) == [i \in 1..n |-> OtherVisit(i)]

\* what the listeners hand to recordEvent on a day with g visits of github.com,
\* before or after the other sites
DayEvents(n, g, githubFirst) ==
  (IF githubFirst THEN Times(g, GithubVisit) \o OtherVisits(n)
   ELSE OtherVisits(n) \o Times(g, GithubVisit))
  \o <<BookmarkX, DownloadReport>>

\* the entries recordEvent makes of the events, one every second up to StartNow
RecordedDay(events) ==
  [k \in 1..Len(events) |->
     recordEvent([log |-> <<>>, meta |-> EmptyMeta, dLog |-> Null, dMeta |-> Null],
                 events[k], StartNow - (Len(events) - k), "ok").log[1]]

ReportProfiles ==
  {LET log == RecordedDay(DayEvents(n, g, f))
   IN [EmptyStorage EXCEPT !.eventLog = Some(log), !.storeMeta = Some(MetaOf(log))] :
     <<n, g, f>> \in (0..MaxOtherSites) \X {1, 2} \X BOOLEAN}

InitReport == Start(ReportProfiles, {0}) /\ feed = NoFeed

\* buildAndSendDigest's gathering of the day's data and its call of formatDigest
CallFormatDigest ==
  /\ phase = "ready"
  /\ inputs < MaxReportCalls
  /\ inputs' = inputs + 1
  /\ LET events == getEventsForDay(eventLog, now)
     IN storeCall' = Call("formatDigest", "none", FALSE, now,
                          formatDigest(events, getDomainStats(events), pageTimeLog,
                                       getTotalActiveTime(pageTimeLog), getPageContent(now)))
  /\ UNCHANGED <<now, tz, deviceState, trackerVars, storeVars, configVars, idleVars,
                 lifeVars, digestVars, feed, seenVars, storage, alarms, persistPc, snapshotAt>>

NextReport == InitComplete \/ CallFormatDigest

SpecReport == InitReport /\ [][NextReport]_vars

-----------------------------------------------------------------------------
(* The digest builder on a profile that holds a page visited around midnight, *)
(* in two time zones                                                          *)

MaxDayInputs == 3

\* moments of the night before StartNow: UTC 22:50, 23:10 and 00:10
NightTimes == {0 - 4200, 0 - 3000, 600}

\* what the worker stored when the page was left at time t: the events of the
\* visit, and the page's content under the key of the day addPageContent saw
VisitedAt(t) ==
  [EmptyStorage EXCEPT
     !.config = Some(SavedConfig),
     !.eventLog = Some(<<Entry(t - CONTENT_MIN_MS), Entry(t)>>),
     !.storeMeta = Some(MetaOf(<<Entry(t - CONTENT_MIN_MS), Entry(t)>>)),
     !.content = <<[day |-> UtcDay(t), url |-> sanitizeUrl(UrlExample), title |-> "t",
                    timeSpent |-> CONTENT_MIN_MS, meta |-> [url |-> UrlExample],
                    timestamp |-> t]>>]

DayProfiles == {VisitedAt(t) : t \in NightTimes}

InitDay == Start(DayProfiles, Zones) /\ feed = NoFeed

NextDay ==
  /\ \/ InitComplete
     \/ Advance
     \/ TabEvent
     \/ PersistAlarm
     \/ PersistAlarmSnapshot
     \/ DigestAlarm
     \/ SendDigestNow
     \/ Build
     \/ Extraction
  /\ inputs' <= MaxDayInputs

SpecDay == InitDay /\ [][NextDay]_vars

-----------------------------------------------------------------------------
(* store.js while every write to storage succeeds, at the first attempt or at *)
(* the retry after a quota error; the worker may be stopped and woken by its  *)
(* persist alarm, and the options page may clear the data                     *)

MaxBatchInputs == 7
GoodWrites == {"ok", "quota"}

BatchProfiles ==
  {EmptyStorage,
   [EmptyStorage EXCEPT !.eventLog = Some(OldLog), !.storeMeta = Some(MetaOf(OldLog))],
   [EmptyStorage EXCEPT !.eventLog = Some(BigLog), !.storeMeta = Some(MetaOf(BigLog))]}

InitBatch == Start(BatchProfiles, {0}) /\ feed = NoFeed

NextBatch ==
  /\ \/ InitComplete
     \/ Advance
     \/ \E out \in GoodWrites : CallRecordEvent(UrlExample, out)
     \/ \E out \in GoodWrites : CallFlushStore(out)
     \/ PersistTick(GoodWrites)
     \/ PersistAlarmSnapshot
     \/ WakeByPersistAlarm
     \/ OptionsClear
  /\ inputs' <= MaxBatchInputs

SpecBatch == InitBatch /\ [][NextBatch]_vars

-----------------------------------------------------------------------------
(* The privacy settings changed from the popup and the options page *)

MaxSettingsInputs == 4

InitSettings == Init

NextSettings ==
  /\ \/ InitComplete
     \/ Restart
     \/ Advance
     \/ \E checked \in BOOLEAN : PopupToggle(checked)
     \/ Save
     \/ TabEvent
  /\ inputs' <= MaxSettingsInputs

SpecSettings == InitSettings /\ [][NextSettings]_vars

-----------------------------------------------------------------------------
(* The worker stopped while idle and started again by its alarms, on a profile *)
(* that holds events of today                                                  *)

MaxWakeInputs == 4

WakeProfiles == {VisitedAt(600), VisitedAt(StartNow - 120)}

InitWake == Start(WakeProfiles, {0}) /\ feed = NoFeed

NextWake ==
  /\ \/ InitComplete
     \/ Advance
     \/ TabEvent
     \/ PersistAlarm
     \/ PersistAlarmSnapshot
     \/ DigestAlarm
     \/ WakeByPersistAlarm
     \/ WakeByDigestAlarm
     \/ Build
     \/ Extraction
  /\ inputs' <= MaxWakeInputs

SpecWake == InitWake /\ [][NextWake]_vars

-----------------------------------------------------------------------------
(* The worker kept running: the clock reaches every firing time of the persist *)
(* alarm, the browser fires the alarm when it is due, and storage answers.     *)
(* Events are appended and the options page clears the data only while a      *)
(* firing of the alarm is still ahead within LivePeriods periods.             *)

MaxLiveInputs == 4
LivePeriods == 3
LiveHorizon == StartNow + LivePeriods * PERSIST_PERIOD_MS
AppendTimes == {StartNow + k * PERSIST_PERIOD_MS : k \in 0..LivePeriods}

LiveProfiles ==
  {EmptyStorage,
   [EmptyStorage EXCEPT !.eventLog = Some(OldLog), !.storeMeta = Some(MetaOf(OldLog))]}

TickAhead == ~IsNull(alarms.persist) /\ Val(alarms.persist) <= LiveHorizon

\* the time until the persist alarm is due passes
Pass ==
  /\ Settled
  /\ TickAhead
  /\ now < Val(alarms.persist)
  /\ now' = Val(alarms.persist)
  /\ UNCHANGED <<inputs, tz, deviceState, trackerVars, storeVars, configVars, idleVars, lifeVars,
                 callVars, digestVars, storage, alarms, persistPc, snapshotAt>>

InitLive == Start(LiveProfiles, {0}) /\ feed = NoFeed

NextLive ==
  /\ \/ InitComplete
     \/ Pass
     \/ TickAhead /\ \E out \in GoodWrites : CallRecordEvent(UrlExample, out)
     \/ TickAhead /\ OptionsClear
     \/ PersistTick(GoodWrites)
     \/ PersistAlarmSnapshot
  /\ inputs' <= MaxLiveInputs

SpecLive ==
  /\ InitLive
  /\ [][NextLive]_vars
  /\ WF_vars(InitComplete)
  /\ WF_vars(Pass)
  /\ WF_vars(PersistTick(GoodWrites))
  /\ WF_vars(PersistAlarmSnapshot)

-----------------------------------------------------------------------------
(* Properties of the digest builder *)

\* C1: the digest of one calendar day is successfully delivered at most once,
\* whatever the interleaving of alarm firings, builds and restarts.
DigestDeliveredAtMostOncePerDay == redeliveredDays = {}

\* C2: a build called after a build of the same day has ended with a successful
\* delivery returns already_sent, delivers nothing, does not write the marker
\* and does not reset the dwell accumulator.
SecondBuildAlreadySent ==
  \A i \in Slots :
    LET b == builds[i]
    IN b.afterSuccess =>
         /\ b.pc \in {"marker", "done", "gone"}
         /\ b.pc = "done" => b.result = "already_sent"
         /\ b.sends = 0
         /\ ~b.wrote
         /\ ~b.didReset

\* C2, its case: a second build of the day has returned already_sent
SecondBuildRefused ==
  \E i \in Slots :
    /\ builds[i].afterSuccess
    /\ builds[i].pc = "done"
    /\ builds[i].result = "already_sent"
    /\ storage.lastDigestDate = Some(UtcDay(builds[i].date))

\* C3: a build asked for by hand (sendDigestNow) on a day whose marker is
\* already that day is not stopped by the already-sent guard.
ManualBuildBypassesGuard ==
  \A i \in Slots :
    builds[i].source = "manual" /\ builds[i].pc = "done" => builds[i].result # "already_sent"

\* C4: a build that finds zero events for its day returns no_events, attempts
\* no delivery, and leaves the marker and the dwell accumulator alone.
NoEventsShortCircuit ==
  \A i \in Slots :
    LET b == builds[i]
    IN b.pc \notin {"idle", "marker", "gone"} /\ b.lastDigest # Some(UtcDay(b.date)) /\ b.nEvents = 0 =>
         /\ b.pc = "done"
         /\ b.result = "no_events"
         /\ b.sends = 0
         /\ ~b.wrote
         /\ ~b.didReset

\* C4, its case: a build has returned no_events on a day not yet marked
NoEventsReturned ==
  \E i \in Slots :
    /\ builds[i].pc = "done"
    /\ builds[i].result = "no_events"
    /\ builds[i].nEvents = 0
    /\ storage.lastDigestDate # Some(UtcDay(builds[i].date))

\* C5: a build writes the marker and resets the dwell accumulator if and only
\* if the webhook or the logger delivery reported success; when all deliveries
\* fail, or no endpoint is configured, it does neither.
MarkedIffDelivered ==
  \A i \in Slots :
    LET b == builds[i]
        delivered == b.webhook = "ok" \/ b.logger = "ok"
    IN /\ b.wrote => delivered /\ storage.lastDigestDate # Null
       /\ b.didReset => b.wrote
       /\ b.pc = "done" /\ b.result \notin {"already_sent", "no_events"} =>
            /\ b.wrote <=> delivered
            /\ b.didReset <=> delivered

\* C5, its case: the webhook failed, the logger succeeded, the day is marked
\* and the accumulator was reset
MarkedByLoggerAlone ==
  \E i \in Slots :
    /\ builds[i].pc = "done"
    /\ builds[i].webhook = "http_error"
    /\ builds[i].logger = "ok"
    /\ builds[i].wrote
    /\ builds[i].didReset
    /\ storage.lastDigestDate = Some(UtcDay(builds[i].date))

-----------------------------------------------------------------------------
(* Properties of the persistence tick *)

\* C6: whatever the pattern of teardowns and restarts, the dwell accumulator
\* and the current session are snapshotted on a fixed interval, so never more
\* than one interval passes without a snapshot.
SnapshotWithinInterval == now - snapshotAt <= PERSIST_PERIOD_MS

\* C7: no dwell time is counted twice: for every domain the accumulated dwell
\* never exceeds the sum of the clamped durations of the sessions of that
\* domain closed in the current digest period.
NoDwellDoubleCounted ==
  \A d \in Hosts \ {""} : TotalOf(pageTimeLog, d) <= closedSum[d].totalMs

-----------------------------------------------------------------------------
(* Properties of the tracker *)

\* C8: a session closed after less than MIN_DURATION contributes zero and adds
\* no session; one closed after more than MAX_DURATION contributes exactly
\* MAX_DURATION; every contribution lies in [MIN_DURATION, MAX_DURATION].
ContributionClamped ==
  [][~IsNull(currentPage) /\ currentPage' # currentPage =>
       LET page == Val(currentPage)
           elapsed == now - page.startTime
           contributed == TotalOf(pageTimeLog', page.domain) - TotalOf(pageTimeLog, page.domain)
           sessionsAdded == SessionsOf(pageTimeLog', page.domain) - SessionsOf(pageTimeLog, page.domain)
       IN /\ elapsed < MIN_DURATION_MS => contributed = 0 /\ sessionsAdded = 0
          /\ elapsed > MAX_DURATION_MS => contributed = MAX_DURATION_MS
          /\ contributed # 0 => contributed >= MIN_DURATION_MS /\ contributed <= MAX_DURATION_MS]_vars

\* C8, for sessions that have a domain: as above, where a session closed after
\* more than MAX_DURATION contributes exactly MAX_DURATION when its domain is
\* not empty, and a session with an empty domain contributes nothing.
ContributionClampedForDomains ==
  [][~IsNull(currentPage) /\ currentPage' # currentPage =>
       LET page == Val(currentPage)
           elapsed == now - page.startTime
           contributed == TotalOf(pageTimeLog', page.domain) - TotalOf(pageTimeLog, page.domain)
           sessionsAdded == SessionsOf(pageTimeLog', page.domain) - SessionsOf(pageTimeLog, page.domain)
       IN /\ elapsed < MIN_DURATION_MS => contributed = 0 /\ sessionsAdded = 0
          /\ elapsed > MAX_DURATION_MS /\ page.domain # "" =>
               contributed = MAX_DURATION_MS /\ sessionsAdded = 1
          /\ page.domain = "" => pageTimeLog' = pageTimeLog
          /\ contributed # 0 => contributed >= MIN_DURATION_MS /\ contributed <= MAX_DURATION_MS]_vars

\* C8, its case: one session of more than MAX_DURATION on example.com was
\* closed and stands in the accumulator with MAX_DURATION
CappedSessionFolded ==
  /\ now - StartNow > MAX_DURATION_MS
  /\ SessionsOf(pageTimeLog, "example.com") = 1
  /\ TotalOf(pageTimeLog, "example.com") = MAX_DURATION_MS

\* C9: between two resets the accumulator entry of a domain is the sum of the
\* clamped durations of that domain's closed sessions of at least MIN_DURATION,
\* its session count is their number, and no other domain's entry is touched.
AccumulatorIsSumOfSessions ==
  \A d \in Hosts \ {""} :
    /\ TotalOf(pageTimeLog, d) = closedSum[d].totalMs
    /\ SessionsOf(pageTimeLog, d) = closedSum[d].sessions

\* C9, its case: sessions of 40 s and 20 s on example.com stand as 60 s and 2
\* sessions, beside an entry of another domain
FortyPlusTwenty ==
  /\ TotalOf(pageTimeLog, "example.com") = Ms(40000) + Ms(20000)
  /\ SessionsOf(pageTimeLog, "example.com") = 2
  /\ closedSum["example.com"] = [totalMs |-> Ms(60000), sessions |-> 2]
  /\ now - StartNow = Ms(60000)

OverlongSessionNotExtracted ==
  [][~IsNull(currentPage) /\ currentPage' # currentPage
       /\ now - Val(currentPage).startTime > CONTENT_MAX_MS =>
         extractTasks' = extractTasks]_vars

\* C12: within one life of the worker no run of extractAndLog goes on to store
\* and deliver the content of a sanitized URL that an earlier run has already
\* marked as sent, whatever the overlap of the runs.
ContentOncePerUrl ==
  [][\A task \in extractTasks' \ extractTasks :
       task.pc = "reading" => task.url \notin sentUrls]_vars

-----------------------------------------------------------------------------
(* Properties of the page-content table *)

\* C13: after any sequence of addPageContent calls made one after the other
\* within one day, the day's stored list has at most PAGE_CONTENT_CAP entries
\* (all of them while fewer pages were inserted), is ordered by timeSpent
\* descending, and holds the pages with the largest timeSpent of all inserted:
\* no page left out has a larger timeSpent than a page kept.
TopPagesKept ==
  LET c == ContentOfDay(UtcDay(now))
      n == Len(feed.best)
      kept == {k \in 1..n : \E i \in 1..Len(c) : c[i].url = PageUrl(k)}
  IN /\ Len(c) = Min2(n, PAGE_CONTENT_CAP)
     /\ Len(c) <= 50
     /\ \A i \in 1..(Len(c) - 1) : c[i].timeSpent >= c[i + 1].timeSpent
     /\ \A i \in 1..Len(c) : \E k \in 1..n :
          c[i].url = PageUrl(k) /\ c[i].timeSpent = feed.best[k]
     /\ \A k \in (1..n) \ kept : \A i \in 1..Len(c) : feed.best[k] <= c[i].timeSpent

\* C13, its case: 60 pages with distinct URLs were inserted, in neither rising
\* nor falling order of timeSpent, and 50 are stored
SixtyInsertedFiftyKept ==
  /\ feed.order = "zigzag"
  /\ inputs = 0
  /\ Len(feed.best) = 60
  /\ Len(ContentOfDay(UtcDay(now))) = 50

\* C14: a day's list never holds two entries with the same URL, and
\* addPageContent for a URL already in the list puts the new entry in place of
\* the stored one only when its timeSpent is strictly larger; otherwise the
\* stored entry stays as it was.
UniquePerUrlLargerWins ==
  /\ [](\A i, j \in 1..Len(storage.content) :
          /\ storage.content[i].day = storage.content[j].day
          /\ storage.content[i].url = storage.content[j].url
          => i = j)
  /\ [][feed' # feed =>
          LET e == Val(feed'.last)
              before == SelectSeq(ContentOfDay(e.day), LAMBDA x : x.url = e.url)
              after == SelectSeq(SelectSeq(storage'.content, LAMBDA x : x.day = e.day),
                                 LAMBDA x : x.url = e.url)
          IN before # <<>> =>
               after = IF e.timeSpent > before[1].timeSpent THEN <<e>> ELSE before]_vars

\* C14, its case: a page was added again with the timeSpent it is stored with,
\* and the stored entry is still the earlier one
RevisitLeftEntry ==
  /\ ~IsNull(feed.last)
  /\ Val(feed.last).title = "again"
  /\ \E i \in 1..Len(storage.content) :
       /\ storage.content[i].url = Val(feed.last).url
       /\ storage.content[i].timeSpent = Val(feed.last).timeSpent
       /\ storage.content[i].title = "t"

-----------------------------------------------------------------------------
(* Properties of the event store *)

\* midnight, local time, of the day that holds t
Midnight(t) == t - ((t + tz) % DAY_MS)

\* C15: getEventsForDay(day) returns exactly the logged events with
\* dayStart <= timestamp < dayStart + 24 h, dayStart being the day's local
\* midnight, in the order of the log, and leaves the log, the store metadata
\* and the durable copy as they were.
QueryIsDayWindow ==
  [][storeCall' # storeCall /\ Val(storeCall').op = "getEventsForDay" =>
       LET call == Val(storeCall')
           dayStart == Midnight(call.date)
           InDay(e) == e.t >= dayStart /\ e.t < dayStart + DAY_MS
       IN /\ call.result = SelectSeq(eventLog, InDay)
          /\ eventLog' = eventLog
          /\ storeMeta' = storeMeta
          /\ storage' = storage]_vars

\* C15, its case: in a time zone east of UTC a query returned some but not all
\* of the log, leaving out the event at the following local midnight
QueryReturnedPart ==
  /\ tz # 0
  /\ ~IsNull(storeCall)
  /\ Val(storeCall).op = "getEventsForDay"
  /\ Val(storeCall).date = now - DAY_MS
  /\ Len(Val(storeCall).result) > 0
  /\ Len(Val(storeCall).result) < Len(eventLog)
  /\ \E i \in 1..Len(eventLog) : eventLog[i].t = Midnight(now)
  /\ \A j \in 1..Len(Val(storeCall).result) : Val(storeCall).result[j].t < Midnight(now)

\* C16: every durable write of the event log comes after enforceRetention: the
\* written log, and the log in memory beside it, hold no event with
\* timestamp <= now - retention window (an event exactly at the cutoff is
\* dropped), and the newer events are kept in their order: all of them, with
\* the event just recorded at the end, or their latest QuotaTail when the
\* write was the retry after a quota failure.
WrittenLogWithinRetention ==
  [][storage'.eventLog # storage.eventLog /\ ~IsNull(storage'.eventLog) =>
       LET written == Val(storage'.eventLog)
           cutoff == now - DEFAULT_RETENTION_DAYS * DAY_MS
           newer == SelectSeq(eventLog, LAMBDA e : e.t > cutoff)
           n == Len(written)
       IN /\ \A i \in 1..n : written[i].t > cutoff
          /\ written = eventLog'
          /\ \/ written = newer
             \/ n = Len(newer) + 1 /\ SubSeq(written, 1, n - 1) = newer /\ written[n].t = now
             \/ n = QuotaTail /\ written = SubSeq(newer, Len(newer) - n + 1, Len(newer))
             \/ /\ n = QuotaTail /\ written[n].t = now
                /\ SubSeq(written, 1, n - 1) = SubSeq(newer, Len(newer) - n + 2, Len(newer))]_vars

\* C16, its case: the persistence tick wrote the log at a moment when a stored
\* event was exactly at the cutoff; that event is gone and the event one
\* second newer is kept
CutoffEventDropped ==
  LET cutoff == now - DEFAULT_RETENTION_DAYS * DAY_MS
  IN /\ now = StartNow + PERSIST_PERIOD_MS
     /\ ~IsNull(storage.eventLog)
     /\ Val(storage.eventLog) # <<>>
     /\ Val(storage.eventLog)[1].t = cutoff + 1
     /\ ~IsNull(initSnap.eventLog) \/ phase = "ready"
     /\ \E k \in 1..Len(OldTimes) : OldTimes[k] = cutoff

\* C17: the retention window is the one configured on the settings page
\* (storeRetention), 90 days when none is configured: every written log holds
\* no event older than the configured number of days.
WrittenLogWithinConfiguredRetention ==
  [][storage'.eventLog # storage.eventLog /\ ~IsNull(storage'.eventLog) =>
       LET days == OrElse(storage.storeRetention, DEFAULT_RETENTION_DAYS)
       IN \A i \in 1..Len(Val(storage'.eventLog)) :
            Val(storage'.eventLog)[i].t >= now - days * DAY_MS]_vars

\* C18: when the write of a log that holds more than QuotaTail events after
\* retention fails on the storage quota, the log in memory is cut to its latest
\* QuotaTail events, in order, the write is tried once more, and when storage
\* accepts it the durable log is that tail.
QuotaRecoveryKeepsTail ==
  [][/\ storeCall' # storeCall
     /\ Val(storeCall').out = "quota"
     /\ Len(SelectSeq(eventLog, LAMBDA e : e.t > now - DEFAULT_RETENTION_DAYS * DAY_MS)) > 1000
     => /\ Len(eventLog') = 1000
        /\ storage'.eventLog = Some(eventLog')
        /\ ~Val(storeCall').raised
        /\ IF Val(storeCall').op = "flushStore"
           THEN eventLog' = SubSeq(eventLog, Len(eventLog) - 999, Len(eventLog))
           ELSE /\ SubSeq(eventLog', 1, 999) = SubSeq(eventLog, Len(eventLog) - 998, Len(eventLog))
                /\ eventLog'[1000].t = now]_vars

\* C18, its case: a log of more than 1000 events met a quota failure and the
\* durable log is its latest 1000 events
TailWrittenAfterQuota ==
  /\ ~IsNull(storeCall)
  /\ Val(storeCall).out = "quota"
  /\ Len(eventLog) = 1000
  /\ storage.eventLog = Some(eventLog)
  /\ storeMeta.totalEvents > 1000

\* C19: a failed storage write during persist, the failure of the
\* quota-recovery retry included, is never raised out of recordEvent or
\* flushStore, and the persistence tick that met it still goes on to
\* persistPageTimes.
PersistFailureNotRaised ==
  /\ [](~IsNull(storeCall) => ~Val(storeCall).raised)
  /\ [][alarms'.persist # alarms.persist /\ phase = "ready" /\ phase' = "ready" =>
          persistPc' = "flushed"]_vars

\* C20: clearing erases the event log and the store metadata, in memory and
\* in durable storage, and the page-content table with them.
ClearErasesAll ==
  [][~IsNull(storage.eventLog) /\ IsNull(storage'.eventLog) =>
       /\ eventLog' = <<>>
       /\ storeMeta' = EmptyMeta
       /\ IsNull(storage'.storeMeta)
       /\ storage'.content = <<>>]_vars

\* C21: once the options page has cleared the data, no event from before the
\* clear is in the durable log again, whatever the running worker writes later
ClearedEventsStayGone ==
  ~IsNull(clearedAt) /\ ~IsNull(storage.eventLog) =>
     \A i \in 1..Len(Val(storage.eventLog)) : Val(storage.eventLog)[i].t >= Val(clearedAt)

-----------------------------------------------------------------------------
(* Properties of the event sources *)

IsSanitized(url) == url.keys \subseteq keepParams /\ ~url.frag

\* C22: every URL in durable storage is sanitized: the url of each event, the
\* url inside bookmark and download payloads, and every url a page-content
\* entry carries have no query parameter besides the kept ones and no fragment
PersistedUrlsSanitized ==
  /\ \A i \in 1..Len(OrElse(storage.eventLog, <<>>)) :
       LET e == Val(storage.eventLog)[i]
       IN /\ IsSanitized(e.url)
          /\ e.type \in {"bookmark.created", "download.completed"} => IsSanitized(e.data.url)
  /\ \A i \in 1..Len(storage.content) :
       /\ IsSanitized(storage.content[i].url)
       /\ IsSanitized(storage.content[i].meta.url)

Blocklisted(host) == \E term \in getPrivacySettings.domainBlocklist : HostIncludes(host, term)

\* C23: nothing about a page whose hostname contains a blocklisted term is
\* tracked: no event in the log, no open session, nothing sent outbound
BlocklistedNeverTracked ==
  /\ \A i \in 1..Len(eventLog) : ~Blocklisted(eventLog[i].domain)
  /\ ~IsNull(currentPage) => ~Blocklisted(Val(currentPage).domain)
  /\ \A o \in outbound : ~Blocklisted(o.url.host)

\* C24: while trackIncognito is off, a signal from an incognito tab appends no
\* event and opens no session
IncognitoNotTracked ==
  [][(/\ lastSignal' # lastSignal
      /\ ~IsNull(lastSignal')
      /\ Val(lastSignal').tab.incognito
      /\ ~Val(lastSignal').idled
      /\ ~getPrivacySettings.trackIncognito)
     => eventLog' = eventLog /\ currentPage' = currentPage]_vars

\* C26: a session is open exactly when the latest navigation or tab-focus
\* target passed the filter and no idle close-out followed it, and it is the
\* session of that target
SessionIffLastTargetTracked ==
  ~IsNull(lastSignal) =>
     LET sig == Val(lastSignal)
     IN /\ ~IsNull(currentPage) <=> (shouldTrack(sig.url) /\ ~sig.idled)
        /\ ~IsNull(currentPage) => Val(currentPage).url = sig.url

\* C27: going idle or locked closes the session and opens none; coming back to
\* active opens a session for the focused page, if it passes the filter, that
\* starts at the moment of the transition
IdleClosesActiveReopens ==
  [][/\ (deviceState = "active" /\ deviceState' # "active") => IsNull(currentPage')
     /\ (/\ deviceState # "active"
         /\ deviceState' = "active"
         /\ ~IsNull(lastSignal)
         /\ shouldTrack(Val(lastSignal).url))
        => /\ ~IsNull(currentPage')
           /\ Val(currentPage').url = Val(lastSignal).url
           /\ Val(currentPage').startTime = now']_vars

\* C28: every event in the log has one of the six known types, whatever
\* recordEvent was called with
StoredTypesKnown == \A i \in 1..Len(eventLog) : eventLog[i].type \in EventTypes

\* C25: no request goes to the webhook while it is not configured and enabled,
\* and none to the logger while that is not configured and enabled; a webhook
\* send attempted then returns 'not_configured'
NoSendUnlessConfigured ==
  [][/\ \A o \in outbound' \ outbound :
          IF o.to = "webhook"
          THEN o.result = (IF ConfigOk(getConfig) THEN "fetch" ELSE "not_configured")
          ELSE o.result = "fetch" /\ isLoggerConfigured
     /\ \A i \in Slots :
          /\ builds'[i].sends > builds[i].sends =>
               \/ builds'[i].pc = "webhook" /\ ConfigOk(getConfig)
               \/ builds'[i].pc = "logger" /\ isLoggerConfigured
          /\ (builds[i].pc = "content" /\ builds'[i].pc # "content" /\ ~ConfigOk(getConfig))
               => builds'[i].webhook = "not_configured"]_vars

\* a bookmark was made while the connection was filled in but switched off:
\* the send was attempted and refused
RefusedWhileSwitchedOff ==
  /\ getConfig.webhookUrl # "" /\ getConfig.token # "" /\ ~getConfig.enabled
  /\ \E o \in outbound : o.kind = "bookmark" /\ o.result = "not_configured"

\* C29: scheduleDigest arms the digest alarm at the next occurrence of the
\* configured local time strictly after now, more than 0 and at most 24 hours
\* away; when the alarm fires it is due again 24 hours later
ScheduleWithinADay ==
  [][alarms'.digest # alarms.digest =>
       IF builds' # builds
       THEN Val(alarms'.digest) = Val(alarms.digest) + DAY_MS
       ELSE LET delay == Val(alarms'.digest) - now
            IN /\ delay > 0
               /\ delay <= DAY_MS
               /\ (Val(alarms'.digest) + tz) % DAY_MS = getConfig'.digestTime]_vars

\* the connection was switched on at the configured time of day: the alarm is
\* armed a whole day ahead
ArmedADayAhead ==
  /\ now = DEFAULT_DIGEST_TIME
  /\ alarms.digest = Some(now + DAY_MS)
  /\ \A i \in Slots : builds[i].pc = "idle"

\* C30: getDomainStats gives, for every non-empty domain of an event that is
\* neither idle nor user.comeback, the number of such events, the time of the
\* first and the greatest time; other events add nothing; the log is left as is
DomainStatsAggregate ==
  [][(storeCall' # storeCall /\ Val(storeCall').op = "getDomainStats") =>
       LET stats == Val(storeCall').result
           of(d) == {i \in 1..Len(eventLog) :
                       /\ eventLog[i].domain = d
                       /\ eventLog[i].type \notin {"idle", "user.comeback"}}
           domains == {eventLog[i].domain : i \in 1..Len(eventLog)} \ {""}
       IN /\ DOMAIN stats = {d \in domains : of(d) # {}}
          /\ \A d \in DOMAIN stats :
               /\ stats[d].visits = Cardinality(of(d))
               /\ \E i \in of(d) : /\ \A j \in of(d) : i <= j
                                    /\ stats[d].firstSeen = eventLog[i].t
               /\ \E i \in of(d) : /\ \A j \in of(d) : eventLog[j].t <= eventLog[i].t
                                    /\ stats[d].lastSeen = eventLog[i].t
               /\ stats[d].firstSeen <= stats[d].lastSeen
          /\ eventLog' = eventLog]_vars

\* a domain visited twice next to a page without a domain and an idle event
TwoVisitsCounted ==
  /\ ~IsNull(storeCall)
  /\ Val(storeCall).op = "getDomainStats"
  /\ \E d \in DOMAIN Val(storeCall).result :
       /\ Val(storeCall).result[d].visits = 2
       /\ Val(storeCall).result[d].firstSeen < Val(storeCall).result[d].lastSeen
  /\ \E i \in 1..Len(eventLog) : eventLog[i].domain = ""
  /\ Len(eventLog) = MaxLogLen

-----------------------------------------------------------------------------
(* Properties of the digest's day and report *)

\* C31: the page-content entries a build includes are exactly the stored
\* entries that were stored within the local day whose events it gathers
PagesOfTheEventsDay ==
  [][\A i \in Slots :
       (builds[i].pc = "content" /\ builds'[i].pc \notin {"content", "gone"}) =>
          builds'[i].pages =
            SelectSeq(storage.content,
                      LAMBDA e : /\ e.timestamp >= Midnight(builds[i].date)
                                 /\ e.timestamp < Midnight(builds[i].date) + DAY_MS)]_vars

\* the day's events hold a visit of github.com, a bookmark titled X and a download of report.pdf
HasTheThree(events) ==
  /\ \E i \in 1..Len(events) : events[i].type = "navigation" /\ events[i].domain = "github.com"
  /\ \E i \in 1..Len(events) : events[i].type = "bookmark.created" /\ events[i].data.title = "X"
  /\ \E i \in 1..Len(events) :
       events[i].type = "download.completed" /\ events[i].data.filename = "report.pdf"

\* the report has a Top Sites section with a line for github.com, then a Bookmarked
\* section with a line for X, then a Downloads section with a line for report.pdf
ShowsTheThree(report) ==
  LET header(sec) == {i \in 1..Len(report) : report[i].kind = "header" /\ report[i].section = sec}
      item(sec, text) == {i \in 1..Len(report) : /\ report[i].kind = "item"
                                                 /\ report[i].section = sec
                                                 /\ report[i].text = text}
  IN \E a \in header("Top Sites"), b \in item("Top Sites", "github.com"),
        c \in header("Bookmarked"), d \in item("Bookmarked", "X"),
        e \in header("Downloads"), f \in item("Downloads", "report.pdf") :
       a < b /\ b < c /\ c < d /\ d < e /\ e < f

\* fewer than TOP_SITES domains of the day come before the domain when the
\* domains are ranked by their number of counted events, earlier first seen
\* first among equals
AmongTopSites(events, domain) ==
  LET of(d) == {i \in 1..Len(events) : events[i].domain = d /\ Counted(events[i])}
      first(d) == CHOOSE i \in of(d) : \A j \in of(d) : i <= j
      domains == {events[i].domain : i \in {j \in 1..Len(events) : Counted(events[j])}}
      before == {d \in domains \ {domain} :
                   \/ Cardinality(of(d)) > Cardinality(of(domain))
                   \/ Cardinality(of(d)) = Cardinality(of(domain)) /\ first(d) < first(domain)}
  IN Cardinality(before) < TOP_SITES

\* C32: the report of a day whose log holds a visit of github.com, a bookmark
\* titled X and a download of report.pdf has, in this order, a Top Sites section
\* with a line for github.com, a Bookmarked section with a line for X and a
\* Downloads section with a line for report.pdf
ReportShowsTheThree ==
  [][(storeCall' # storeCall /\ Val(storeCall').op = "formatDigest"
        /\ HasTheThree(getEventsForDay(eventLog, now))) =>
       ShowsTheThree(Val(storeCall').result)]_vars

\* C32, amended: the same, for a day on which github.com is among the
\* TOP_SITES domains with the most counted events
ReportShowsTheThreeAmongTopSites ==
  [][(storeCall' # storeCall /\ Val(storeCall').op = "formatDigest"
        /\ HasTheThree(getEventsForDay(eventLog, now))
        /\ AmongTopSites(getEventsForDay(eventLog, now), "github.com")) =>
       ShowsTheThree(Val(storeCall').result)]_vars

\* a report of a day with more than TOP_SITES domains that shows the three
BusyDayReported ==
  /\ ~IsNull(storeCall)
  /\ Val(storeCall).op = "formatDigest"
  /\ HasTheThree(eventLog)
  /\ Cardinality({eventLog[i].domain : i \in 1..Len(eventLog)}) > TOP_SITES
  /\ ShowsTheThree(Val(storeCall).result)

-----------------------------------------------------------------------------
(* Properties of extractions that fail or stay unanswered *)

\* C33: while a tab's answer is outstanding the tracker's exports can still be
\* called, and a call that closes the session folds its capped duration into
\* the accumulator and sets the new session in the same step; the step in
\* which an extraction fails changes neither the accumulator, the session, the
\* sent-URL set nor the page-content table
FailedExtractionHarmless ==
  [][/\ (\E task \in extractTasks : task.pc = "asked") =>
          /\ ENABLED CallTrackPageChange(UrlGithub)
          /\ ~IsNull(currentPage) => ENABLED CallTrackIdle
          /\ (~IsNull(currentPage) /\ currentPage' # currentPage) =>
               LET page == Val(currentPage)
                   duration == Min2(now - page.startTime, MAX_DURATION_MS)
                   folded == IF duration >= MIN_DURATION_MS /\ page.domain # ""
                             THEN duration ELSE 0
               IN /\ TotalOf(pageTimeLog', page.domain) = TotalOf(pageTimeLog, page.domain) + folded
                  /\ IsNull(currentPage') \/ Val(currentPage').startTime = now
     /\ \A task \in extractTasks :
          (task.pc = "asked" /\ extractTasks' = extractTasks \ {task}) =>
             /\ pageTimeLog' = pageTimeLog
             /\ currentPage' = currentPage
             /\ sentUrls' = sentUrls
             /\ storage'.content = storage.content]_vars

\* a session long enough to be extracted was closed in this life of the worker,
\* its extraction has ended without a trace, and the next session is running
ExtractionFailedSessionGoesOn ==
  /\ extractTasks = {}
  /\ sentUrls = {}
  /\ storage.content = <<>>
  /\ closedSum["example.com"].sessions = 1
  /\ closedSum["example.com"].totalMs >= CONTENT_MIN_MS
  /\ closedSum["example.com"].totalMs <= CONTENT_MAX_MS
  /\ ~IsNull(currentPage)
  /\ Val(currentPage).startTime > StartNow + CONTENT_MIN_MS

-----------------------------------------------------------------------------
(* Properties of the worker started by an alarm *)

ElemsOf(seq) == {seq[k] : k \in 1..Len(seq)}

DurableEventsStay ==
  [][LET cutoff == now - DEFAULT_RETENTION_DAYS * DAY_MS
         durable == OrElse(storage.eventLog, <<>>)
     IN \A k \in 1..Len(durable) :
          Retained(durable[k], cutoff) =>
            durable[k] \in ElemsOf(OrElse(storage'.eventLog, <<>>))]_vars

-----------------------------------------------------------------------------
(* Properties of overlapping runs and of what a run reports *)

\* C36: once no run of extractAndLog is in flight, every page whose entry was
\* handed to addPageContent (its URL is marked as sent) has an entry in the
\* page-content table; fewer than PAGE_CONTENT_CAP pages were handed over
AllSentPagesStored ==
  (extractTasks = {} /\ Cardinality(sentUrls) <= PAGE_CONTENT_CAP) =>
     \A url \in sentUrls : \E k \in 1..Len(storage.content) : storage.content[k].url = url

\* C37: a run of buildAndSendDigest that wrote lastDigestDate returns success,
\* so a run that returns a failure has left the marker as it was
ResultAgreesWithMarker ==
  \A i \in Slots :
    (builds[i].pc = "done" /\ builds[i].wrote) => builds[i].result = "ok"

-----------------------------------------------------------------------------
(* Properties of the settings *)

\* the blocklist the user saved on the options page, or the default one
UserBlocklist ==
  IF ~IsNull(storage.privacy) /\ "domainBlocklist" \in DOMAIN Val(storage.privacy)
  THEN Val(storage.privacy).domainBlocklist
  ELSE DefaultBlocklist

\* C38: once the settings are loaded, shouldTrack refuses every URL whose
\* hostname contains a term of the user's saved blocklist, or of the default
\* blocklist when the user never saved one
UserBlocklistApplied ==
  phase = "ready" =>
    \A url \in AllUrls :
      (\E term \in UserBlocklist : HostIncludes(url.host, term)) => ~shouldTrack(url)

-----------------------------------------------------------------------------
(* Properties of the batched persistence *)

DurableLog == OrElse(storage.eventLog, <<>>)

\* the durable log is the log in memory without its last k entries, k <= 4
FewUnsaved ==
  \E k \in 0..4 :
    /\ k <= Len(eventLog)
    /\ DurableLog = SubSeq(eventLog, 1, Len(eventLog) - k)

UnsavedAt(t) ==
  /\ phase = "ready"
  /\ \E i \in 1..Len(eventLog) :
       /\ eventLog[i].t = t
       /\ \A j \in 1..Len(DurableLog) : DurableLog[j] # eventLog[i]

\* C40: while the worker keeps running and writes succeed, an event appended
\* to the log in memory that the durable log lacks is eventually in the durable
\* log, or has by then left the log in memory (retention, quota truncation)
AppendedEventuallyDurable == \A t \in AppendTimes : UnsavedAt(t) ~> ~UnsavedAt(t)

\* fewer than five events were appended to an empty log, and the persist alarm
\* has written them
TickSavedTheBatch ==
  /\ Settled
  /\ Len(eventLog) \in 1..4
  /\ DurableLog = eventLog
  /\ \A i \in 1..Len(eventLog) : eventLog[i].t \in AppendTimes /\ eventLog[i].t < now

=============================================================================
